---- MODULE Spec2Model ----
(***************************************************************************)
(* Model of the savings projection engine of financial_tools:              *)
(*   modules/masters/calc_ira_savings.py        limits, IRA policy, IRA    *)
(*   modules/masters/calc_brokerage_savings.py  brokerage growth           *)
(*   modules/masters/calc_total_savings.py      the aggregator             *)
(*                                                                         *)
(* Python floats are modelled as exact rationals <<n, d>> (d > 0, lowest   *)
(* terms).  Every rate the model draws is dyadic or a small fraction, so   *)
(* products and sums are the values the code computes up to the float's    *)
(* last-bit rounding, which the model does not represent.                  *)
(***************************************************************************)
EXTENDS Integers, Sequences, FiniteSets, TLC

(***************************************************************************)
(* Rational arithmetic (the float operations of the source).  A value is   *)
(* <<n, d>> in lowest terms with d > 0.  As in Python, the operands of an  *)
(* operation are evaluated before the operation is applied: each operation *)
(* first asks for its operands' denominators.                              *)
(***************************************************************************)
Abs(n) == IF n < 0 THEN -n ELSE n

RECURSIVE GCD(_, _)
GCD(a, b) == IF b = 0 THEN a ELSE GCD(b, a % b)

\* n/d in lowest terms with a positive denominator
RNorm(n, d) ==
    CASE d > 0 -> LET g == GCD(Abs(n), d) IN <<n \div g, d \div g>>
      [] d < 0 -> LET g == GCD(Abs(n), -d) IN <<(-n) \div g, (-d) \div g>>

\* an int used as a float
R(n) == <<n, 1>>

Zero == R(0)
One == R(1)

\* a + b
RAdd(a, b) ==
    CASE a[2] > 0 /\ b[2] > 0 ->
        LET g == GCD(a[2], b[2])
        IN  RNorm(a[1] * (b[2] \div g) + b[1] * (a[2] \div g), a[2] * (b[2] \div g))

RNeg(a) == <<-a[1], a[2]>>

\* a - b
RSub(a, b) ==
    CASE a[2] > 0 /\ b[2] > 0 ->
        LET g == GCD(a[2], b[2])
        IN  RNorm(a[1] * (b[2] \div g) - b[1] * (a[2] \div g), a[2] * (b[2] \div g))

\* a * b (cross-cancelled, so the product is in lowest terms)
RMul(a, b) ==
    CASE a[2] > 0 /\ b[2] > 0 ->
        LET g1 == GCD(Abs(a[1]), b[2])
            g2 == GCD(Abs(b[1]), a[2])
        IN  <<(a[1] \div g1) * (b[1] \div g2), (a[2] \div g2) * (b[2] \div g1)>>

\* 1 / a  (a # 0; Python raises ZeroDivisionError otherwise, and the inputs
\* drawn below never make a divisor 0)
RInv(a) ==
    CASE a[1] > 0 -> <<a[2], a[1]>>
      [] a[1] < 0 -> <<-a[2], -a[1]>>

\* a / b
RDiv(a, b) ==
    CASE a[2] > 0 /\ b[1] > 0 -> RMul(a, <<b[2], b[1]>>)
      [] a[2] > 0 /\ b[1] < 0 -> RMul(a, <<-b[2], -b[1]>>)

\* a < b
RLt(a, b) ==
    /\ a[2] > 0 /\ b[2] > 0
    /\ LET g == GCD(a[2], b[2])
       IN  a[1] * (b[2] \div g) < b[1] * (a[2] \div g)

\* a <= b
RLe(a, b) == ~RLt(b, a)

\* max(a, b) of Python: the first argument unless the second is greater
RMax(a, b) == IF RLt(a, b) THEN b ELSE a

\* acc * a ** n for n >= 0, by repeated multiplication (0 stays 0)
RECURSIVE RPowLoop(_, _, _)
RPowLoop(a, n, acc) ==
    IF n = 0 \/ acc = Zero THEN acc ELSE RPowLoop(a, n - 1, RMul(acc, a))

\* a ** n for an int n (n < 0: the reciprocal)
RPow(a, n) == IF n < 0 THEN RInv(RPowLoop(a, -n, One)) ELSE RPowLoop(a, n, One)

\* Python 3 round(x): to the nearest int, a tie to the even one
Round(a) ==
    CASE a[2] > 0 ->
        LET f == a[1] \div a[2]
            r2 == 2 * (a[1] - f * a[2])
        IN  IF r2 < a[2] THEN f
            ELSE IF r2 > a[2] THEN f + 1
            ELSE IF f % 2 = 0 THEN f ELSE f + 1

\* an optional int: Python's None, or a value
None == <<>>
Some(x) == <<x>>

(***************************************************************************)
(* The tables of calc_ira_savings.py.                                      *)
(***************************************************************************)
BASE_LIMITS == (2022 :> 6000) @@ (2023 :> 6500) @@ (2024 :> 7000) @@ (2025 :> 7000)

CATCH_UP == 1000

PHASE_OUT ==
    (2025 :> [roth_single |-> <<150000, 165000>>,
              roth_joint |-> <<230000, 240000>>,
              trad_deduct_single |-> <<77000, 87000>>,
              trad_deduct_joint |-> <<123000, 143000>>])

HISTORICAL_401K_LIMITS ==
    (2006 :> 15000) @@ (2007 :> 15500) @@ (2008 :> 15500) @@ (2009 :> 16500) @@
    (2010 :> 16500) @@ (2011 :> 16500) @@ (2012 :> 17000) @@ (2013 :> 17500) @@
    (2014 :> 17500) @@ (2015 :> 18000) @@ (2016 :> 18000) @@ (2017 :> 18000) @@
    (2018 :> 18500) @@ (2019 :> 19000) @@ (2020 :> 19500) @@ (2021 :> 19500) @@
    (2022 :> 20500) @@ (2023 :> 22500) @@ (2024 :> 23000) @@ (2025 :> 23500)

HISTORICAL_401K_CATCHUP ==
    (2006 :> 5000) @@ (2007 :> 5000) @@ (2008 :> 5000) @@ (2009 :> 5500) @@
    (2010 :> 5500) @@ (2011 :> 5500) @@ (2012 :> 5500) @@ (2013 :> 5500) @@
    (2014 :> 5500) @@ (2015 :> 6000) @@ (2016 :> 6000) @@ (2017 :> 6000) @@
    (2018 :> 6000) @@ (2019 :> 6000) @@ (2020 :> 6500) @@ (2021 :> 6500) @@
    (2022 :> 6750) @@ (2023 :> 7500) @@ (2024 :> 7500) @@ (2025 :> 7500)

\* The module-level dicts as the running program holds them.  Every function
\* of calc_ira_savings.py reads them here; no statement of the source assigns
\* to them or to one of their entries.
VARIABLE tables

\* the dicts as the module defines them when it is loaded
ModuleTables ==
    [BASE_LIMITS |-> BASE_LIMITS,
     PHASE_OUT |-> PHASE_OUT,
     HISTORICAL_401K_LIMITS |-> HISTORICAL_401K_LIMITS,
     HISTORICAL_401K_CATCHUP |-> HISTORICAL_401K_CATCHUP]

\* the default base_year of projected_401k_limit and projected_401k_catchup,
\* and the base_year of get_phaseout
BaseYear == 2025

(***************************************************************************)
(* Limit projector.                                                        *)
(***************************************************************************)
\* round(x / 500) * 500
RoundTo500(x) == Round(RDiv(x, R(500))) * 500

\* floor(x * q) and ceil(x * q) for an int x >= 0 and a float q > 0
FloorMul(x, q) == (x * q[1]) \div q[2]
CeilMul(x, q) == (x * q[1] + q[2] - 1) \div q[2]

\* lo / 10^6 <= q ** n <= hi / 10^6, kept through n multiplications by q
RECURSIVE PowBounds(_, _, _, _)
PowBounds(q, n, lo, hi) ==
    IF n = 0 \/ lo > hi THEN <<lo, hi>> ELSE PowBounds(q, n - 1, FloorMul(lo, q), CeilMul(hi, q))

\* base * ((1 + growth_rate) ** years_elapsed) as a pair <<low, high>> that
\* encloses the product.  From the base year on the power is computed exactly
\* and low = high.  Before the base year the exact power of a rate such as
\* 0.02 over twenty years and more has a numerator and a denominator beyond
\* 32-bit integers; it is enclosed to six decimals instead (growth_rate >= 0).
Compounded(base, growth_rate, years_elapsed) ==
    IF years_elapsed >= 0
    THEN LET projected == RMul(R(base), RPow(RAdd(One, growth_rate), years_elapsed))
         IN  <<projected, projected>>
    ELSE LET b == PowBounds(RInv(RAdd(One, growth_rate)), -years_elapsed, 1000000, 1000000)
         IN  <<RMul(R(base), RNorm(b[1], 1000000)), RMul(R(base), RNorm(b[2], 1000000))>>

\* the multiple of 500 below the product, whatever its remainder
FloorTo500(projected) ==
    CASE projected[1][2] > 0 -> (RDiv(projected[1], R(500))[1] \div RDiv(projected[1], R(500))[2]) * 500

\* round(projected / 500) * 500 of an enclosed product: both ends of the
\* enclosure round to the same multiple, which is the value the exact product
\* rounds to
RoundProjected(projected) ==
    CASE RoundTo500(projected[1]) = RoundTo500(projected[2]) -> RoundTo500(projected[1])

\* projected_401k_limit(year, growth_rate=growth_rate), growth_rate given
projected_401k_limit(year, growth_rate) ==
    IF year \in DOMAIN tables.HISTORICAL_401K_LIMITS
    THEN R(tables.HISTORICAL_401K_LIMITS[year])
    ELSE LET years_elapsed == year - BaseYear
             base_limit == tables.HISTORICAL_401K_LIMITS[BaseYear]
             projected == Compounded(base_limit, growth_rate, years_elapsed)
         IN  R(RoundProjected(projected))

\* projected_401k_catchup(year, growth_rate=growth_rate), growth_rate given
projected_401k_catchup(year, growth_rate) ==
    IF year \in DOMAIN tables.HISTORICAL_401K_CATCHUP
    THEN R(tables.HISTORICAL_401K_CATCHUP[year])
    ELSE LET years_elapsed == year - BaseYear
             base_catchup == tables.HISTORICAL_401K_CATCHUP[BaseYear]
             projected == Compounded(base_catchup, growth_rate, years_elapsed)
         IN  R(RoundProjected(projected))

\* the age from which the 401(k) catch-up is added
CatchUpAge401k == 50

\* a contribution cap whose catch-up starts after age 50
CatchUpAfter50(year, age, growth_rate) ==
    LET base_limit == projected_401k_limit(year, growth_rate)
        catch_up == IF age > CatchUpAge401k
                    THEN projected_401k_catchup(year, growth_rate) ELSE Zero
    IN  RAdd(base_limit, catch_up)

max_401k_contribution(year, age, growth_rate) ==
    LET base_limit == projected_401k_limit(year, growth_rate)
        catch_up == IF age >= CatchUpAge401k
                    THEN projected_401k_catchup(year, growth_rate) ELSE Zero
    IN  RAdd(base_limit, catch_up)

\* the two-year ladder applied to every year, the table left unread
LadderOnly(year) == RoundTo500(R(6000 + ((year - 2022) \div 2) * 500))

projected_limit(year) ==
    IF year \in DOMAIN tables.BASE_LIMITS
    THEN tables.BASE_LIMITS[year]
    ELSE LET steps == (year - 2022) \div 2
             calculated_limit == 6000 + steps * 500
         IN  RoundTo500(R(calculated_limit))

\* the decades counted by truncation toward zero: a year before the base
\* year stays in the base year's decade
TruncatedDecades(year, key) ==
    LET base == tables.PHASE_OUT[BaseYear][key]
        years_ahead == year - BaseYear
        decades == IF years_ahead >= 0 THEN years_ahead \div 10 ELSE -((-years_ahead) \div 10)
    IN  <<base[1] + decades * 10000, base[2] + decades * 10000>>

\* get_phaseout(year, key): <<low, high>>
get_phaseout(year, key) ==
    IF year \in DOMAIN tables.PHASE_OUT
    THEN tables.PHASE_OUT[year][key]
    ELSE LET base == tables.PHASE_OUT[BaseYear][key]
             years_ahead == year - BaseYear
             increase == (years_ahead \div 10) * 10000
         IN  <<base[1] + increase, base[2] + increase>>

(***************************************************************************)
(* Contribution policy.                                                    *)
(***************************************************************************)
\* the filing statuses max_ira_contribution accepts
SupportedStatus == {"single", "joint", "separate_lived"}

\* the result of a call that raised: no amount
NoValue == <<0, 0>>

Raised == [raised |-> TRUE, value |-> NoValue]

Returned(v) == [raised |-> FALSE, value |-> v]

\* the fixed range of 'separate_lived'
SeparateLivedRange == <<0, 10000>>

\* a ladder that rises between low and high
RisingLadder(max_total, magi, range) ==
    LET low == range[1]
        high == range[2]
    IN  IF RLt(magi, R(low)) THEN max_total
        ELSE IF RLe(R(high), magi) THEN Zero
        ELSE RDiv(RMul(max_total, RSub(magi, R(low))), R(high - low))

\* the phase-out ladder: full below low, 0 from high, linear between
PhaseOutAmount(max_total, magi, range) ==
    LET low == range[1]
        high == range[2]
    IN  IF RLt(magi, R(low)) THEN max_total
        ELSE IF RLe(R(high), magi) THEN Zero
        ELSE RDiv(RMul(max_total, RSub(R(high), magi)), R(high - low))

\* the Roth range of a supported filing status
RothRange(year, filing_status) ==
    IF filing_status = "single" THEN get_phaseout(year, "roth_single")
    ELSE IF filing_status = "joint" THEN get_phaseout(year, "roth_joint")
    ELSE SeparateLivedRange

\* the traditional-deduction range of a supported filing status
TradRange(year, filing_status) ==
    IF filing_status = "single" THEN get_phaseout(year, "trad_deduct_single")
    ELSE IF filing_status = "joint" THEN get_phaseout(year, "trad_deduct_joint")
    ELSE SeparateLivedRange

\* base + catch
MaxTotal(year, age) == R(projected_limit(year) + (IF age >= 50 THEN CATCH_UP ELSE 0))

\* a traditional amount that follows the ladder whether covered or not
TradLadder(year, age, filing_status, magi, plan_covered) ==
    PhaseOutAmount(MaxTotal(year, age), magi, TradRange(year, filing_status))

\* the traditional amount: the ladder when covered by a plan, max_total otherwise
TradMax(year, age, filing_status, magi, plan_covered) ==
    IF plan_covered
    THEN PhaseOutAmount(MaxTotal(year, age), magi, TradRange(year, filing_status))
    ELSE MaxTotal(year, age)

\* a policy that treats every status it does not know as 'single'
UnknownStatusAsSingle(year, age, filing_status, magi, plan_covered) ==
    LET status == IF filing_status \in SupportedStatus THEN filing_status ELSE "single"
        max_total == MaxTotal(year, age)
        roth_max == PhaseOutAmount(max_total, magi, RothRange(year, status))
        trad_max == TradMax(year, age, status, magi, plan_covered)
    IN  Returned(RMax(trad_max, roth_max))

max_ira_contribution(year, age, filing_status, magi, plan_covered) ==
    IF filing_status \notin SupportedStatus
    THEN Raised
    ELSE LET max_total == MaxTotal(year, age)
             roth_max == PhaseOutAmount(max_total, magi, RothRange(year, filing_status))
             trad_max == TradMax(year, age, filing_status, magi, plan_covered)
         IN  Returned(RMax(trad_max, roth_max))

(***************************************************************************)
(* The earlier contribution policy of ira_calculator_module.py: its own    *)
(* phase-out table, and a wider set of filing statuses.                    *)
(***************************************************************************)
ira_calculator_module_PHASE_OUT ==
    (2025 :> [roth_single |-> <<150000, 165000>>,
              roth_joint |-> <<236000, 246000>>,
              trad_deduct_single |-> <<79000, 89000>>,
              trad_deduct_joint |-> <<126000, 146000>>])

ira_calculator_module_projected_limit(year) ==
    IF year \in DOMAIN BASE_LIMITS
    THEN BASE_LIMITS[year]
    ELSE LET steps == (year - 2022) \div 2
         IN  6000 + steps * 500

ira_calculator_module_get_phaseout(year, key) ==
    IF year \in DOMAIN ira_calculator_module_PHASE_OUT
    THEN ira_calculator_module_PHASE_OUT[year][key]
    ELSE LET base == ira_calculator_module_PHASE_OUT[BaseYear][key]
             years_ahead == year - BaseYear
             increase == (years_ahead \div 10) * 10000
         IN  <<base[1] + increase, base[2] + increase>>

\* the statuses the Roth branch accepts, and those the traditional branch accepts
RothStatus == {"single", "hoh", "separate_not_lived", "joint", "separate_lived"}
TradStatus == {"single", "hoh", "joint", "separate_lived"}

ira_calculator_module_max_ira_contribution(year, age, filing_status, magi, plan_covered) ==
    IF filing_status \notin RothStatus THEN Raised
    ELSE IF plan_covered /\ filing_status \notin TradStatus THEN Raised
    ELSE LET max_total ==
                 R(ira_calculator_module_projected_limit(year)
                   + (IF age >= 50 THEN CATCH_UP ELSE 0))
             range == IF filing_status \in {"single", "hoh", "separate_not_lived"}
                      THEN ira_calculator_module_get_phaseout(year, "roth_single")
                      ELSE IF filing_status = "joint"
                      THEN ira_calculator_module_get_phaseout(year, "roth_joint")
                      ELSE SeparateLivedRange
             roth_max == PhaseOutAmount(max_total, magi, range)
             range_t == IF filing_status \in {"single", "hoh"}
                        THEN ira_calculator_module_get_phaseout(year, "trad_deduct_single")
                        ELSE IF filing_status = "joint"
                        THEN ira_calculator_module_get_phaseout(year, "trad_deduct_joint")
                        ELSE SeparateLivedRange
             trad_max == IF plan_covered THEN PhaseOutAmount(max_total, magi, range_t)
                         ELSE max_total
         IN  Returned(RMax(trad_max, roth_max))

(***************************************************************************)
(* Degree window: the condition each consumer evaluates for a year.        *)
(* d is any record holding the masters_* fields.                           *)
(***************************************************************************)
\* calc_ira_savings.py:323
IraInWindow(d, year) ==
    /\ d.masters_degree_enabled
    /\ d.masters_start_year # None
    /\ d.masters_start_year[1] <= year
    /\ year < d.masters_start_year[1] + d.masters_degree_years

\* calc_total_savings.py:202 (the contribution total)
K401ContributionInWindow(d, year) ==
    /\ d.masters_degree_enabled
    /\ d.masters_start_year # None
    /\ d.masters_start_year[1] <= year
    /\ year < d.masters_start_year[1] + d.masters_degree_years

\* calc_total_savings.py:224 (the final balance)
K401BalanceInWindow(d, year) ==
    /\ d.masters_degree_enabled
    /\ d.masters_start_year # None
    /\ d.masters_start_year[1] <= year
    /\ year < d.masters_start_year[1] + d.masters_degree_years

\* a window that opens a year before the degree starts
WindowWithYearBefore(d, year) ==
    /\ d.masters_degree_enabled
    /\ d.masters_start_year # None
    /\ d.masters_start_year[1] - 1 <= year
    /\ year < d.masters_start_year[1] + d.masters_degree_years

\* calc_brokerage_savings.py:60
BrokerageInWindow(d, year) ==
    /\ d.masters_degree_enabled
    /\ d.masters_start_year # None
    /\ d.masters_start_year[1] <= year
    /\ year < d.masters_start_year[1] + d.masters_degree_years

\* calc_total_savings.py:278
\* a window whose last year is masters_start_year + masters_degree_years
InclusiveWindow(d, year) ==
    /\ d.masters_degree_enabled
    /\ d.masters_start_year # None
    /\ d.masters_start_year[1] <= year
    /\ year <= d.masters_start_year[1] + d.masters_degree_years

P529InWindow(d, year) ==
    /\ d.masters_degree_enabled
    /\ d.masters_start_year # None
    /\ d.masters_start_year[1] <= year
    /\ year < d.masters_start_year[1] + d.masters_degree_years

\* a window that never closes once the degree has started
WindowFromStart(d, year) ==
    /\ d.masters_degree_enabled
    /\ d.masters_start_year # None
    /\ d.masters_start_year[1] <= year

\* calc_total_savings.py:386 (the ledger's 401(k) balance)
LedgerK401InWindow(d, year) ==
    /\ d.masters_degree_enabled
    /\ d.masters_start_year # None
    /\ d.masters_start_year[1] <= year
    /\ year < d.masters_start_year[1] + d.masters_degree_years

\* calc_total_savings.py:398 (the ledger's 529 withdrawals)
Ledger529InWindow(d, year) ==
    /\ d.masters_degree_enabled
    /\ d.masters_start_year # None
    /\ d.masters_start_year[1] <= year
    /\ year < d.masters_start_year[1] + d.masters_degree_years

(***************************************************************************)
(* Account growth models.                                                  *)
(***************************************************************************)
\* a year that loses the return instead of earning it
ShrinkThenAdd(balance, rate, contribution) ==
    RAdd(RMul(balance, RSub(One, rate)), contribution)

\* a year that adds the contribution first and lets it earn the return
AddThenGrow(balance, rate, contribution) ==
    RMul(RAdd(balance, contribution), RAdd(One, rate))

\* one year of "grow, then contribute"
GrowThenAdd(balance, rate, contribution) ==
    RAdd(RMul(balance, RAdd(One, rate)), contribution)

\* the loop of project_401k_balance from index i on
RECURSIVE Project401kLoop(_, _, _, _, _, _, _, _)
Project401kLoop(i, current_balance, balances, start_year, years, starting_age, stock_market_return, growth_rate) ==
    IF Len(balances) >= years THEN balances
    ELSE LET annual_contribution ==
                 max_401k_contribution(start_year + i, starting_age + i, growth_rate)
             grown == GrowThenAdd(current_balance, stock_market_return, annual_contribution)
         IN  Project401kLoop(i + 1, grown, Append(balances, grown), start_year, years,
                             starting_age, stock_market_return, growth_rate)

\* project_401k_balance: the list of yearly balances (no degree window)
project_401k_balance(start_year, years, starting_age, starting_401k_balance, stock_market_return, growth_rate) ==
    Project401kLoop(0, starting_401k_balance, <<>>, start_year, years, starting_age,
                    stock_market_return, growth_rate)

\* the loop of project_brokerage_balance from index i on
RECURSIVE ProjectBrokerageLoop(_, _, _, _, _, _, _)
ProjectBrokerageLoop(i, current_balance, balances, years, annual_contribution, contribution_growth_rate, stock_market_return) ==
    IF Len(balances) >= years THEN balances
    ELSE LET current_contribution ==
                 RMul(annual_contribution, RPow(RAdd(One, contribution_growth_rate), i))
             grown == GrowThenAdd(current_balance, stock_market_return, current_contribution)
         IN  ProjectBrokerageLoop(i + 1, grown, Append(balances, grown), years,
                                  annual_contribution, contribution_growth_rate,
                                  stock_market_return)

\* project_brokerage_balance: the list of yearly balances (no degree window;
\* start_year is accepted and not used)
project_brokerage_balance(start_year, years, starting_balance, annual_contribution, contribution_growth_rate, stock_market_return) ==
    ProjectBrokerageLoop(0, starting_balance, <<>>, years, annual_contribution,
                         contribution_growth_rate, stock_market_return)

\* the contribution of year index i in calculate_brokerage_growth
BrokerageContribution(i, start_year, annual_contribution, contribution_growth_rate, d) ==
    IF BrokerageInWindow(d, start_year + i) /\ d.masters_enrollment_type = "full_time"
    THEN Zero
    ELSE RMul(annual_contribution, RPow(RAdd(One, contribution_growth_rate), i))

\* the real-return balance of calculate_brokerage_growth and of the IRA loop:
\* grown by 1 + (return - inflation), the contribution added undeflated
RealReturnStep(balance_real, stock_market_return, inflation_rate, contribution) ==
    GrowThenAdd(balance_real, RSub(stock_market_return, inflation_rate), contribution)

\* the loop of calculate_brokerage_growth from index i on; st holds the locals
RECURSIVE BrokerageLoop(_, _, _, _, _, _, _, _, _)
BrokerageLoop(i, st, start_year, years, annual_contribution, contribution_growth_rate, stock_market_return, inflation_rate, d) ==
    IF Len(st.year_details) >= years THEN st
    ELSE LET current_contribution ==
                 BrokerageContribution(i, start_year, annual_contribution,
                                       contribution_growth_rate, d)
             balance == GrowThenAdd(st.current_balance, stock_market_return,
                                    current_contribution)
             balance_real == RealReturnStep(st.current_balance_real, stock_market_return,
                                            inflation_rate, current_contribution)
             detail == [year |-> start_year + i,
                        contribution |-> current_contribution,
                        balance |-> balance,
                        balance_real |-> balance_real,
                        future_value |-> balance,
                        future_value_real |-> balance_real]
         IN  BrokerageLoop(i + 1,
                           [current_balance |-> balance,
                            current_balance_real |-> balance_real,
                            year_details |-> Append(st.year_details, detail)],
                           start_year, years, annual_contribution,
                           contribution_growth_rate, stock_market_return,
                           inflation_rate, d)

\* value / (1 + inflation_rate) ** n
Deflate(value, inflation_rate, n) == RDiv(value, RPow(RAdd(One, inflation_rate), n))

\* the final real balance of calculate_brokerage_growth
BrokerageFinalReal(current_balance, inflation_rate, years) ==
    Deflate(current_balance, inflation_rate, years)

\* a brokerage projection that ignores the starting balance
BrokerageFromZero(start_year, years, starting_balance, annual_contribution, contribution_growth_rate, stock_market_return, inflation_rate, d) ==
    LET st == BrokerageLoop(0, [current_balance |-> Zero,
                                current_balance_real |-> Zero,
                                year_details |-> <<>>],
                            start_year, years, annual_contribution,
                            contribution_growth_rate, stock_market_return,
                            inflation_rate, d)
    IN  [total_accumulated |-> st.current_balance,
         total_accumulated_real |-> st.current_balance_real,
         final_balance |-> st.current_balance,
         final_balance_real |-> BrokerageFinalReal(st.current_balance, inflation_rate, years),
         year_details |-> st.year_details]

\* calculate_brokerage_growth(..., return_details=True)
calculate_brokerage_growth(start_year, years, starting_balance, annual_contribution, contribution_growth_rate, stock_market_return, inflation_rate, d) ==
    LET st == BrokerageLoop(0, [current_balance |-> starting_balance,
                                current_balance_real |-> starting_balance,
                                year_details |-> <<>>],
                            start_year, years, annual_contribution,
                            contribution_growth_rate, stock_market_return,
                            inflation_rate, d)
    IN  [total_accumulated |-> st.current_balance,
         total_accumulated_real |-> st.current_balance_real,
         final_balance |-> st.current_balance,
         final_balance_real |-> BrokerageFinalReal(st.current_balance, inflation_rate, years),
         year_details |-> st.year_details]

\* the keys print_brokerage_analysis_table reads in every year_details record
TableKeys == {"year", "contribution", "balance", "balance_real", "years_to_grow",
              "future_value", "future_value_real"}

\* print_brokerage_analysis_table(analysis_data): the table rows are built
\* from year_data[key] for each key above; a record without one of them
\* raises KeyError, otherwise the function prints and returns None.  (The
\* 'parameters' and the four totals it prints first are always present.)
print_brokerage_analysis_table(analysis_data) ==
    IF \E k \in 1..Len(analysis_data.year_details) :
           ~(TableKeys \subseteq DOMAIN analysis_data.year_details[k])
    THEN Raised
    ELSE Returned(None)

\* an IRA contribution computed from the MAGI already grown for the next year
IraContributionOnGrownMagi(year, current_age, filing_status, magi, plan_covered, d) ==
    IF IraInWindow(d, year) /\ d.masters_enrollment_type = "full_time"
    THEN Zero
    ELSE max_ira_contribution(year, current_age, filing_status,
                              RMul(magi, RAdd(One, d.magi_growth_rate)), plan_covered).value

\* the IRA contribution of a year: the policy's amount, 0 in a full-time window
IraContribution(year, current_age, filing_status, magi, plan_covered, d) ==
    IF IraInWindow(d, year) /\ d.masters_enrollment_type = "full_time"
    THEN Zero
    ELSE max_ira_contribution(year, current_age, filing_status, magi, plan_covered).value

\* the loop of total_ira_contributions_over_years from index i on
RECURSIVE IraLoop(_, _, _, _)
IraLoop(i, st, p, balances_401k) ==
    IF Len(st.year_details) >= p.years THEN st
    ELSE LET year == p.start_year + i
             current_age == p.age + i
             current_401k_balance == IF i < Len(balances_401k) THEN balances_401k[i + 1]
                                     ELSE p.starting_401k_balance
             contribution == IraContribution(year, current_age, p.filing_status, st.magi,
                                             p.plan_covered, p)
             ira_balance == GrowThenAdd(st.ira_balance, p.stock_market_return, contribution)
             ira_balance_real == RealReturnStep(st.ira_balance_real, p.stock_market_return,
                                                p.inflation_rate, contribution)
             detail == [year |-> year,
                        age |-> current_age,
                        magi |-> st.magi,
                        ira_contribution |-> contribution,
                        future_value |-> ira_balance,
                        future_value_real |-> ira_balance_real,
                        k401_balance |-> current_401k_balance,
                        k401_limit |-> projected_401k_limit(year, p.k401_limit_growth_rate),
                        k401_catchup |-> IF current_age >= 50
                                         THEN projected_401k_catchup(year, p.k401_limit_growth_rate)
                                         ELSE Zero]
         IN  IraLoop(i + 1,
                     [ira_balance |-> ira_balance,
                      ira_balance_real |-> ira_balance_real,
                      magi |-> RMul(st.magi, RAdd(One, p.magi_growth_rate)),
                      year_details |-> Append(st.year_details, detail)],
                     p, balances_401k)

\* total_ira_contributions_over_years(..., return_details=True)
total_ira_contributions_over_years(p) ==
    LET balances_401k == project_401k_balance(p.start_year, p.years, p.age,
                                              p.starting_401k_balance,
                                              p.stock_market_return,
                                              p.k401_limit_growth_rate)
        st == IraLoop(0, [ira_balance |-> Zero,
                          ira_balance_real |-> Zero,
                          magi |-> p.starting_magi,
                          year_details |-> <<>>],
                      p, balances_401k)
    IN  [total_accumulated |-> st.ira_balance,
         total_accumulated_real |-> st.ira_balance_real,
         year_details |-> st.year_details]

\* the loop of calculate_529_growth from index i on (calc_529_savings.py)
RECURSIVE Growth529Loop(_, _, _, _, _, _, _)
Growth529Loop(i, st, start_year, years, annual_contribution, stock_market_return, inflation_rate) ==
    IF Len(st.year_details) >= years THEN st
    ELSE LET balance == GrowThenAdd(st.current_balance, stock_market_return,
                                    annual_contribution)
             total == RAdd(st.total_contributions, annual_contribution)
             detail == [year |-> start_year + i,
                        contribution |-> annual_contribution,
                        balance |-> balance,
                        balance_real |-> Deflate(balance, inflation_rate, i + 1),
                        total_contributions |-> total]
         IN  Growth529Loop(i + 1,
                           [current_balance |-> balance,
                            total_contributions |-> total,
                            year_details |-> Append(st.year_details, detail)],
                           start_year, years, annual_contribution, stock_market_return,
                           inflation_rate)

\* calculate_529_growth(..., return_details=True)
calculate_529_growth(start_year, years, starting_balance, annual_contribution, stock_market_return, inflation_rate) ==
    LET st == Growth529Loop(0, [current_balance |-> starting_balance,
                                total_contributions |-> Zero,
                                year_details |-> <<>>],
                            start_year, years, annual_contribution, stock_market_return,
                            inflation_rate)
    IN  [final_balance |-> st.current_balance,
         final_balance_real |-> Deflate(st.current_balance, inflation_rate, years),
         total_contributions |-> st.total_contributions,
         net_growth |-> RSub(RSub(st.current_balance, starting_balance),
                             st.total_contributions),
         year_details |-> st.year_details]

\* the loop of project_529_balance from index i on
RECURSIVE Project529Loop(_, _, _, _, _, _)
Project529Loop(i, current_balance, balances, years, annual_contribution, stock_market_return) ==
    IF Len(balances) >= years THEN balances
    ELSE LET grown == GrowThenAdd(current_balance, stock_market_return, annual_contribution)
         IN  Project529Loop(i + 1, grown, Append(balances, grown), years,
                            annual_contribution, stock_market_return)

\* project_529_balance: the list of yearly balances (start_year is accepted
\* and not used)
project_529_balance(start_year, years, starting_balance, annual_contribution, stock_market_return) ==
    Project529Loop(0, starting_balance, <<>>, years, annual_contribution, stock_market_return)

(***************************************************************************)
(* 529 withdrawal tax (calc_total_savings.py).                             *)
(***************************************************************************)
\* a bracket (bracket_min, bracket_max, rate); top: bracket_max is float('inf')
Bracket(lo, hi, num, den) == [min |-> lo, max |-> hi, rate |-> RNorm(num, den), top |-> FALSE]

TopBracket(lo, num, den) == [min |-> lo, max |-> lo, rate |-> RNorm(num, den), top |-> TRUE]

federal_brackets_single ==
    << Bracket(0, 11600, 10, 100), Bracket(11600, 47150, 12, 100),
       Bracket(47150, 100525, 22, 100), Bracket(100525, 191950, 24, 100),
       Bracket(191950, 243725, 32, 100), Bracket(243725, 609350, 35, 100),
       TopBracket(609350, 37, 100) >>

federal_brackets_joint ==
    << Bracket(0, 23200, 10, 100), Bracket(23200, 94300, 12, 100),
       Bracket(94300, 201050, 22, 100), Bracket(201050, 383900, 24, 100),
       Bracket(383900, 487450, 32, 100), Bracket(487450, 731200, 35, 100),
       TopBracket(731200, 37, 100) >>

california_brackets_single ==
    << Bracket(0, 10099, 1, 100), Bracket(10099, 23942, 2, 100),
       Bracket(23942, 37788, 4, 100), Bracket(37788, 52455, 6, 100),
       Bracket(52455, 66295, 8, 100), Bracket(66295, 338639, 93, 1000),
       Bracket(338639, 406364, 103, 1000), Bracket(406364, 677275, 113, 1000),
       TopBracket(677275, 123, 1000) >>

california_brackets_joint ==
    << Bracket(0, 20198, 1, 100), Bracket(20198, 47884, 2, 100),
       Bracket(47884, 75576, 4, 100), Bracket(75576, 104910, 6, 100),
       Bracket(104910, 132590, 8, 100), Bracket(132590, 677278, 93, 1000),
       Bracket(677278, 812728, 103, 1000), Bracket(812728, 1354550, 113, 1000),
       TopBracket(1354550, 123, 1000) >>

\* a bracket that taxes all the income that reaches it
WholeRemaining(remaining_income, b) == remaining_income

\* min(remaining_income, bracket_max - bracket_min)
TaxableInBracket(remaining_income, b) ==
    IF b.top \/ RLe(remaining_income, R(b.max - b.min))
    THEN remaining_income
    ELSE R(b.max - b.min)

\* the bracket loop from bracket k on; st holds the locals remaining_income
\* and the tax so far
RECURSIVE BracketWalk(_, _, _)
BracketWalk(brackets, k, st) ==
    IF k > Len(brackets) \/ RLe(st.remaining_income, Zero) THEN st.tax
    ELSE LET taxable_in_bracket == TaxableInBracket(st.remaining_income, brackets[k])
         IN  BracketWalk(brackets, k + 1,
                         [remaining_income |-> RSub(st.remaining_income, taxable_in_bracket),
                          tax |-> RAdd(st.tax, RMul(taxable_in_bracket, brackets[k].rate))])

\* a penalty charged as a fixed fee
FlatPenalty(balance_529) == R(1000)

\* the 10% penalty for a non-qualified withdrawal
Penalty(balance_529) == RMul(balance_529, RNorm(10, 100))

calculate_529_withdrawal_tax(balance_529, filing_status) ==
    LET federal_brackets == IF filing_status = "joint" THEN federal_brackets_joint
                            ELSE federal_brackets_single
        california_brackets == IF filing_status = "joint" THEN california_brackets_joint
                               ELSE california_brackets_single
        federal_tax == BracketWalk(federal_brackets, 1,
                                   [remaining_income |-> balance_529, tax |-> Zero])
        california_tax == BracketWalk(california_brackets, 1,
                                      [remaining_income |-> balance_529, tax |-> Zero])
    IN  RAdd(RAdd(federal_tax, california_tax), Penalty(balance_529))

(***************************************************************************)
(* The aggregator calculate_total_savings as a state machine.  A caller    *)
(* draws one parameter set and calls the aggregator twice: first with the  *)
(* degree disabled (the baseline), then with the parameter set as drawn;   *)
(* it then calls the standalone projections calculate_529_growth and       *)
(* project_brokerage_balance on the same parameters, and last the          *)
(* aggregator again with the parameters of the first call.                 *)
(***************************************************************************)
VARIABLES
    scenario,            \* the parameter set the caller drew
    call,                \* the number of calls started so far
    pc,                  \* the position inside calculate_total_savings
    params,              \* the arguments of the running call
    i,                   \* the index of the running loop
    ira_results,         \* what total_ira_contributions_over_years returned
    k401,                \* the 401(k) locals of calculate_total_savings
    brokerage_results,   \* what calculate_brokerage_growth returned
    p529,                \* the 529 locals: _529_balance, _529_yearly, the withdrawals
    results,             \* the dict being built and returned; its 'ira_details' and
                         \* 'brokerage_details' are ira_results and brokerage_results
    baseline,            \* what the first call computed
    window,              \* per consumer, the value its window condition took each year
    probe                \* the last direct call of a standalone function: its name,
                         \* its arguments and what it returned

vars == <<tables, scenario, call, pc, params, i, ira_results, k401, brokerage_results, p529,
          results, baseline, window, probe>>

\* ---- bounds of the drawn inputs
MaxYears == 3
MaxDegreeYears == 2

StartYears == {2025}
Ages == {48}
\* <<filing_status, starting_magi, plan_covered>>
TaxProfiles == {<<"single", 50000, FALSE>>, <<"single", 128000, TRUE>>,
                <<"joint", 128000, TRUE>>}
MagiGrowthRates == {<<1, 4>>}
MarketReturns == {<<-3, 4>>, Zero, <<1, 2>>}
InflationRates == {Zero, One}
LimitGrowthRates == {<<1, 2>>}
\* <<starting 401(k), starting brokerage, starting 529, annual brokerage contribution,
\*   employer contribution to the tuition>>
Portfolios == {<<0, 0, 0, 0, 25000>>, <<0, 0, 0, 1000, 5000>>,
               <<100000, 5000, 48000, 1000, 5000>>}
MastersStartYears == {None, Some(2024), Some(2026)}
EnrollmentTypes == {"full_time", "part_time"}

DegreeScenarios ==
    { [enabled |-> FALSE, start |-> None, dyears |-> 0, type |-> "full_time"] }
    \cup
    { [enabled |-> TRUE, start |-> s, dyears |-> n, type |-> t] :
        s \in MastersStartYears, n \in 0..MaxDegreeYears, t \in EnrollmentTypes }

Scenarios ==
    { [start_year |-> sy,
       years |-> n,
       age |-> a,
       filing_status |-> tp[1],
       starting_magi |-> R(tp[2]),
       magi_growth_rate |-> mg,
       plan_covered |-> tp[3],
       stock_market_return |-> r,
       starting_401k_balance |-> R(sb[1]),
       inflation_rate |-> inf,
       k401_limit_growth_rate |-> g,
       starting_brokerage_balance |-> R(sb[2]),
       annual_brokerage_contribution |-> R(sb[4]),
       brokerage_contribution_growth_rate |-> <<1, 2>>,
       starting_529_balance |-> R(sb[3]),
       annual_529_contribution |-> R(1600),
       c529_contribution_growth_rate |-> <<1, 2>>,
       masters_degree_enabled |-> d.enabled,
       masters_start_year |-> d.start,
       masters_degree_years |-> d.dyears,
       masters_annual_tuition |-> R(20000),
       masters_enrollment_type |-> d.type,
       masters_employer_contribution |-> R(sb[5]),
       ft_annual_living_expenses |-> R(30000),
       pt_annual_living_expenses |-> R(10000),
       return_details |-> TRUE] :
        sy \in StartYears, n \in 0..MaxYears, a \in Ages, tp \in TaxProfiles,
        mg \in MagiGrowthRates, r \in MarketReturns, inf \in InflationRates,
        g \in LimitGrowthRates, sb \in Portfolios, d \in DegreeScenarios }

\* the same parameters with the degree disabled
NoDegree(p) == [p EXCEPT !.masters_degree_enabled = FALSE]

\* ---- values before a call has produced them
NoResults == [returned |-> FALSE]
NoProbe == [fn |-> "none"]
NoWindow == [ira |-> <<>>, k401_contributions |-> <<>>, k401_balance |-> <<>>,
             brokerage |-> <<>>, p529 |-> <<>>, ledger_401k |-> <<>>, ledger_529 |-> <<>>]
\* annual, final_annual: the annual_contribution of each year in the two 401(k)
\* loops; final_balances: _401k_final_balance after each year
NoK401 == [contributions |-> Zero, annual |-> <<>>, final_balance |-> Zero,
           final_annual |-> <<>>, final_balances |-> <<>>, final_balance_real |-> Zero]
NoP529 == [balance |-> Zero, yearly |-> <<>>, tuition |-> <<>>, living |-> <<>>]

\* 529 locals whose yearly list is shared between calls: it still holds what
\* the first call appended
Carried529(starting_529_balance) ==
    [NoP529 EXCEPT !.balance = starting_529_balance,
                   !.yearly = IF baseline.returned THEN baseline.results.p529_yearly
                              ELSE <<>>]

\* lines 261-262: _529_balance = starting_529_balance, _529_yearly = []
Fresh529(starting_529_balance) == [NoP529 EXCEPT !.balance = starting_529_balance]

\* the window condition of a consumer over the simulated years
IraWindowFlags(p) == [j \in 1..p.years |-> IraInWindow(p, p.start_year + j - 1)]
BrokerageWindowFlags(p) ==
    [j \in 1..p.years |-> BrokerageInWindow(p, p.start_year + j - 1)]

Init ==
    /\ tables = ModuleTables
    /\ scenario \in Scenarios
    /\ call = 0
    /\ pc = "idle"
    /\ params = scenario
    /\ i = 0
    /\ ira_results = NoResults
    /\ k401 = NoK401
    /\ brokerage_results = NoResults
    /\ p529 = NoP529
    /\ results = NoResults
    /\ baseline = NoResults
    /\ window = NoWindow
    /\ probe = NoProbe

\* the caller invokes calculate_total_savings
Call ==
    /\ pc = "idle"
    /\ call < 2 \/ call = 4
    /\ call' = call + 1
    /\ params' = IF call = 1 THEN scenario ELSE NoDegree(scenario)
    /\ pc' = "ira"
    /\ i' = 0
    /\ ira_results' = NoResults
    /\ k401' = NoK401
    /\ brokerage_results' = NoResults
    /\ p529' = NoP529
    /\ results' = NoResults
    /\ window' = NoWindow
    /\ UNCHANGED <<tables, scenario, baseline, probe>>

\* lines 163-190: the IRA projection, then _401k_contributions = 0.0
IraCall ==
    /\ pc = "ira"
    /\ ira_results' = total_ira_contributions_over_years(params)
    /\ window' = [window EXCEPT !.ira = IraWindowFlags(params)]
    /\ k401' = [k401 EXCEPT !.contributions = Zero]
    /\ pc' = "k401_contributions"
    /\ i' = 0
    /\ UNCHANGED <<tables, scenario, call, params, brokerage_results, p529, results, baseline, probe>>

\* base_limit + catch_up of the aggregator's own 401(k) loops
K401AnnualLimit(year, current_age, growth_rate) ==
    RAdd(projected_401k_limit(year, growth_rate),
         IF current_age >= 50 THEN projected_401k_catchup(year, growth_rate) ELSE Zero)

\* a degree rule that never suspends a contribution
NeverSuspend(in_window, enrollment_type, annual_contribution) == annual_contribution

\* a degree rule that suspends the contribution under either enrollment type
SuspendInWindow(in_window, enrollment_type, annual_contribution) ==
    IF in_window THEN Zero ELSE annual_contribution

\* the contribution after the degree rule: 0 in a full-time window
SuspendIfFullTime(in_window, enrollment_type, annual_contribution) ==
    IF in_window /\ enrollment_type = "full_time" THEN Zero ELSE annual_contribution

\* lines 191-206: one year of the 401(k) contribution total
K401ContributionStep ==
    /\ pc = "k401_contributions"
    /\ i < params.years
    /\ LET year == params.start_year + i
           current_age == params.age + i
           in_window == K401ContributionInWindow(params, year)
           annual_contribution ==
               SuspendIfFullTime(in_window, params.masters_enrollment_type,
                   K401AnnualLimit(year, current_age, params.k401_limit_growth_rate))
       IN  /\ k401' = [k401 EXCEPT !.contributions = RAdd(@, annual_contribution),
                                   !.annual = Append(@, annual_contribution)]
           /\ window' = [window EXCEPT !.k401_contributions = Append(@, in_window)]
    /\ i' = i + 1
    /\ UNCHANGED <<tables, scenario, call, pc, params, ira_results, brokerage_results, p529,
                   results, baseline, probe>>

\* line 210: _401k_final_balance = starting_401k_balance
K401BalanceInit ==
    /\ pc = "k401_contributions"
    /\ i >= params.years
    /\ k401' = [k401 EXCEPT !.final_balance = params.starting_401k_balance]
    /\ pc' = "k401_balance"
    /\ i' = 0
    /\ UNCHANGED <<tables, scenario, call, params, ira_results, brokerage_results, p529, results,
                   baseline, window, probe>>

\* lines 213-232: one year of the 401(k) balance
K401BalanceStep ==
    /\ pc = "k401_balance"
    /\ i < params.years
    /\ LET year == params.start_year + i
           current_age == params.age + i
           in_window == K401BalanceInWindow(params, year)
           annual_contribution ==
               SuspendIfFullTime(in_window, params.masters_enrollment_type,
                   K401AnnualLimit(year, current_age, params.k401_limit_growth_rate))
           balance == GrowThenAdd(k401.final_balance, params.stock_market_return,
                                  annual_contribution)
       IN  /\ k401' = [k401 EXCEPT !.final_balance = balance,
                                   !.final_annual = Append(@, annual_contribution),
                                   !.final_balances = Append(@, balance)]
           /\ window' = [window EXCEPT !.k401_balance = Append(@, in_window)]
    /\ i' = i + 1
    /\ UNCHANGED <<tables, scenario, call, pc, params, ira_results, brokerage_results, p529,
                   results, baseline, probe>>

\* lines 235-262: the real 401(k) balance, the brokerage projection, the 529 start
BrokerageCall ==
    /\ pc = "k401_balance"
    /\ i >= params.years
    /\ k401' = [k401 EXCEPT !.final_balance_real =
                   Deflate(k401.final_balance, params.inflation_rate, params.years)]
    /\ brokerage_results' =
           calculate_brokerage_growth(params.start_year, params.years,
                                      params.starting_brokerage_balance,
                                      params.annual_brokerage_contribution,
                                      params.brokerage_contribution_growth_rate,
                                      params.stock_market_return, params.inflation_rate,
                                      params)
    /\ window' = [window EXCEPT !.brokerage = BrokerageWindowFlags(params)]
    /\ p529' = Fresh529(params.starting_529_balance)
    /\ pc' = "p529"
    /\ i' = 0
    /\ UNCHANGED <<tables, scenario, call, params, ira_results, results, baseline, probe>>

\* a tuition withdrawal that charges part-time enrollment the full tuition
UnscaledTuition(p, year, in_window) ==
    IF ~in_window THEN Zero
    ELSE RMax(RSub(RMul(p.masters_annual_tuition,
                        RPow(RAdd(One, p.inflation_rate), year - p.masters_start_year[1])),
                   p.masters_employer_contribution),
              Zero)

\* the tuition withdrawal of a year (0 outside the window)
TuitionThisYear(p, year, in_window) ==
    IF ~in_window THEN Zero
    ELSE LET inflated == RMul(p.masters_annual_tuition,
                              RPow(RAdd(One, p.inflation_rate), year - p.masters_start_year[1]))
             scaled == IF p.masters_enrollment_type = "part_time"
                       THEN RMul(inflated, RNorm(7, 10)) ELSE inflated
         IN  RMax(RSub(scaled, p.masters_employer_contribution), Zero)

\* the living-expense withdrawal of a year (0 outside the window)
LivingExpensesThisYear(p, year, in_window) ==
    IF ~in_window THEN Zero
    ELSE RMul(IF p.masters_enrollment_type = "full_time"
              THEN p.ft_annual_living_expenses ELSE p.pt_annual_living_expenses,
              RPow(RAdd(One, p.inflation_rate), year - p.masters_start_year[1]))

\* a 529 balance after the withdrawals, without the floor
WithdrawUnfloored(balance, tuition_this_year, living_expenses_this_year) ==
    RSub(RSub(balance, tuition_this_year), living_expenses_this_year)

\* lines 294-296: subtract both withdrawals, then floor the balance at 0
Withdraw(balance, tuition_this_year, living_expenses_this_year) ==
    RMax(RSub(RSub(balance, tuition_this_year), living_expenses_this_year), Zero)

\* lines 263-297: one year of the 529 plan
P529Step ==
    /\ pc = "p529"
    /\ i < params.years
    /\ LET year == params.start_year + i
           current_contribution ==
               RMul(params.annual_529_contribution,
                    RPow(RAdd(One, params.c529_contribution_growth_rate), i))
           grown == GrowThenAdd(p529.balance, params.stock_market_return,
                                current_contribution)
           in_window == P529InWindow(params, year)
           tuition_this_year == TuitionThisYear(params, year, in_window)
           living_expenses_this_year == LivingExpensesThisYear(params, year, in_window)
           balance == Withdraw(grown, tuition_this_year, living_expenses_this_year)
       IN  /\ p529' = [balance |-> balance,
                       yearly |-> Append(p529.yearly, balance),
                       tuition |-> Append(p529.tuition, tuition_this_year),
                       living |-> Append(p529.living, living_expenses_this_year)]
           /\ window' = [window EXCEPT !.p529 = Append(@, in_window)]
    /\ i' = i + 1
    /\ UNCHANGED <<tables, scenario, call, pc, params, ira_results, k401, brokerage_results,
                   results, baseline, probe>>

\* a real grand total that adds the 529 after-tax amount undiscounted
UndiscountedTotalReal(ira_real, k401_real, brokerage_real, after_tax, inflation_rate, years) ==
    RAdd(RAdd(RAdd(ira_real, k401_real), brokerage_real), after_tax)

\* the real grand total: the three real balances plus the deflated 529 after-tax amount
TotalReal(ira_real, k401_real, brokerage_real, after_tax, inflation_rate, years) ==
    RAdd(RAdd(RAdd(ira_real, k401_real), brokerage_real),
         Deflate(after_tax, inflation_rate, years))

\* a nominal grand total of the three accounts only
TotalOfThreeNominal(ira_nominal, k401_nominal, brokerage_nominal, after_tax) ==
    RAdd(RAdd(ira_nominal, k401_nominal), brokerage_nominal)

\* the nominal grand total
TotalNominal(ira_nominal, k401_nominal, brokerage_nominal, after_tax) ==
    RAdd(RAdd(RAdd(ira_nominal, k401_nominal), brokerage_nominal), after_tax)

\* lines 299-359: the tax, the totals and the results dict
Totals ==
    /\ pc = "p529"
    /\ i >= params.years
    /\ LET ira_nominal == ira_results.total_accumulated
           ira_real == ira_results.total_accumulated_real
           brokerage_nominal == brokerage_results.final_balance
           brokerage_real == brokerage_results.final_balance_real
           tax == calculate_529_withdrawal_tax(p529.balance, params.filing_status)
           after_tax == RSub(p529.balance, tax)
       IN  results' =
               [returned |-> FALSE,
                ira_nominal |-> ira_nominal,
                ira_real |-> ira_real,
                k401_nominal |-> k401.final_balance,
                k401_real |-> k401.final_balance_real,
                k401_contributions |-> k401.contributions,
                brokerage_nominal |-> brokerage_nominal,
                brokerage_real |-> brokerage_real,
                p529_nominal |-> p529.balance,
                p529_real |-> Deflate(p529.balance, params.inflation_rate, params.years),
                p529_tax |-> tax,
                p529_after_tax |-> after_tax,
                p529_yearly |-> p529.yearly,
                total_nominal |-> TotalNominal(ira_nominal, k401.final_balance,
                                               brokerage_nominal, after_tax),
                total_real |-> TotalReal(ira_real, k401.final_balance_real, brokerage_real,
                                         after_tax, params.inflation_rate, params.years),
                yearly_breakdown |-> <<>>]
    /\ pc' = "ledger"
    /\ i' = 0
    /\ UNCHANGED <<tables, scenario, call, params, ira_results, k401, brokerage_results, p529,
                   baseline, window, probe>>

\* a ledger that compounds the previous record's 401(k) balance where it is
\* stored (prev_year_data['401k_balance'] *= ...) before appending
CompoundInPlace(yearly_breakdown, record) ==
    IF yearly_breakdown = <<>> THEN Append(yearly_breakdown, record)
    ELSE Append([yearly_breakdown EXCEPT ![Len(yearly_breakdown)].k401_balance =
                     RMul(@, RAdd(One, params.stock_market_return))],
                record)

\* lines 414-430: results['yearly_breakdown'].append({...}); the previous
\* record is read into the local _401k_balance (371-376) and left as it is
AppendRecord(yearly_breakdown, record) == Append(yearly_breakdown, record)

\* lines 362-430: one record of the yearly breakdown
LedgerStep ==
    /\ pc = "ledger"
    /\ params.return_details
    /\ i < Len(ira_results.year_details)
    /\ LET ira_year == ira_results.year_details[i + 1]
           year == params.start_year + i
           current_age == params.age + i
           grown == IF i = 0
                    THEN RMul(params.starting_401k_balance,
                              RAdd(One, params.stock_market_return))
                    ELSE RMul(results.yearly_breakdown[i].k401_balance,
                              RAdd(One, params.stock_market_return))
           in_window_401k == LedgerK401InWindow(params, year)
           annual_contribution ==
               SuspendIfFullTime(in_window_401k, params.masters_enrollment_type,
                   K401AnnualLimit(year, current_age, params.k401_limit_growth_rate))
           balance_401k == RAdd(grown, annual_contribution)
           balance_401k_real == Deflate(balance_401k, params.inflation_rate, i + 1)
           brokerage_year == brokerage_results.year_details[i + 1]
           in_window_529 == Ledger529InWindow(params, year)
           record ==
               [year |-> year,
                age |-> current_age,
                ira_contribution |-> ira_year.ira_contribution,
                ira_future_value |-> ira_year.future_value,
                ira_future_value_real |-> ira_year.future_value_real,
                k401_balance |-> balance_401k,
                k401_balance_real |-> balance_401k_real,
                brokerage_contribution |-> brokerage_year.contribution,
                brokerage_balance |-> brokerage_year.balance,
                brokerage_balance_real |-> brokerage_year.balance_real,
                total_balance |-> RAdd(RAdd(ira_year.future_value, balance_401k),
                                       brokerage_year.balance),
                total_balance_real |-> RAdd(RAdd(ira_year.future_value_real,
                                                 balance_401k_real),
                                            brokerage_year.balance_real),
                p529_balance |-> p529.yearly[i + 1],
                p529_tuition_withdrawal |-> TuitionThisYear(params, year, in_window_529),
                p529_living_withdrawal |->
                    LivingExpensesThisYear(params, year, in_window_529)]
       IN  /\ results' = [results EXCEPT !.yearly_breakdown = AppendRecord(@, record)]
           /\ window' = [window EXCEPT !.ledger_401k = Append(@, in_window_401k),
                                       !.ledger_529 = Append(@, in_window_529)]
    /\ i' = i + 1
    /\ UNCHANGED <<tables, scenario, call, pc, params, ira_results, k401, brokerage_results, p529,
                   baseline, probe>>

\* line 432: return results; the caller keeps the first call's dict as the baseline
Return ==
    /\ pc = "ledger"
    /\ (~params.return_details \/ i >= Len(ira_results.year_details))
    /\ results' = [results EXCEPT !.returned = TRUE]
    /\ baseline' = IF call = 1
                   THEN [returned |-> TRUE, results |-> results', k401 |-> k401,
                         ira_details |-> ira_results,
                         brokerage_details |-> brokerage_results]
                   ELSE baseline
    /\ pc' = "idle"
    /\ UNCHANGED <<tables, scenario, call, params, i, ira_results, k401, brokerage_results, p529,
                   window, probe>>

\* the caller runs calculate_529_growth on the scenario's 529 parameters
Call529Growth ==
    /\ pc = "idle"
    /\ call = 2
    /\ call' = 3
    /\ probe' = [fn |-> "calculate_529_growth",
                 ret |-> calculate_529_growth(scenario.start_year, scenario.years,
                                              scenario.starting_529_balance,
                                              scenario.annual_529_contribution,
                                              scenario.stock_market_return,
                                              scenario.inflation_rate)]
    /\ UNCHANGED <<tables, scenario, pc, params, i, ira_results, k401, brokerage_results, p529,
                   results, baseline, window>>

\* the caller runs project_brokerage_balance on the scenario's brokerage parameters
CallProjectBrokerage ==
    /\ pc = "idle"
    /\ call = 3
    /\ call' = 4
    /\ probe' = [fn |-> "project_brokerage_balance",
                 ret |-> project_brokerage_balance(
                             scenario.start_year, scenario.years, scenario.starting_brokerage_balance,
                             scenario.annual_brokerage_contribution,
                             scenario.brokerage_contribution_growth_rate,
                             scenario.stock_market_return)]
    /\ UNCHANGED <<tables, scenario, pc, params, i, ira_results, k401, brokerage_results, p529,
                   results, baseline, window>>

Next ==
    \/ Call
    \/ IraCall
    \/ K401ContributionStep
    \/ K401BalanceInit
    \/ K401BalanceStep
    \/ BrokerageCall
    \/ P529Step
    \/ Totals
    \/ LedgerStep
    \/ Return
    \/ Call529Growth
    \/ CallProjectBrokerage

Spec == Init /\ [][Next]_vars

(***************************************************************************)
(* Properties of the aggregator and of the standalone projections (Spec).  *)
(***************************************************************************)
\* the second call of the aggregator, the one with the scenario as drawn, has returned
Done == results.returned /\ call >= 2

Years == 1..params.years
YearOf(idx) == params.start_year + idx - 1

\* the half-open interval [masters_start_year, masters_start_year + masters_degree_years)
InDegreeWindow(year) ==
    /\ params.masters_degree_enabled
    /\ params.masters_start_year # None
    /\ params.masters_start_year[1] <= year
    /\ year < params.masters_start_year[1] + params.masters_degree_years

FullTime == params.masters_enrollment_type = "full_time"

\* C1: under full_time enrollment the IRA, 401(k) and brokerage contribution of
\* every year inside the degree window is exactly 0, and the contribution of
\* every year outside the window is the one of the degree-disabled run.
C1_FullTimeSuspends ==
    Done /\ FullTime =>
        \A idx \in Years :
            IF InDegreeWindow(YearOf(idx))
            THEN /\ ira_results.year_details[idx].ira_contribution = Zero
                 /\ k401.annual[idx] = Zero
                 /\ k401.final_annual[idx] = Zero
                 /\ brokerage_results.year_details[idx].contribution = Zero
            ELSE /\ ira_results.year_details[idx].ira_contribution
                        = baseline.ira_details.year_details[idx].ira_contribution
                 /\ k401.annual[idx] = baseline.k401.annual[idx]
                 /\ k401.final_annual[idx] = baseline.k401.final_annual[idx]
                 /\ brokerage_results.year_details[idx].contribution
                        = baseline.brokerage_details.year_details[idx].contribution

\* a full-time run with a year inside the window whose three contributions are
\* positive without the degree, and a year outside the window
C1_Witness ==
    /\ Done /\ FullTime
    /\ \E idx \in Years :
          /\ InDegreeWindow(YearOf(idx))
          /\ RLt(Zero, baseline.ira_details.year_details[idx].ira_contribution)
          /\ RLt(Zero, baseline.k401.annual[idx])
          /\ RLt(Zero, baseline.brokerage_details.year_details[idx].contribution)
          /\ k401.annual[idx] = Zero
    /\ \E idx \in Years :
          /\ ~InDegreeWindow(YearOf(idx))
          /\ RLt(Zero, k401.annual[idx])

\* C2: every consumer of the degree window (IRA contribution, 401(k)
\* contribution and balance, brokerage contribution, 529 withdrawals, and the
\* ledger's two) evaluates its window condition for every simulated year, and
\* the condition is true exactly when
\* masters_start_year <= year < masters_start_year + masters_degree_years.
C2_SameWindow ==
    Done =>
        \A c \in DOMAIN window :
            /\ Len(window[c]) = params.years
            /\ \A idx \in Years : window[c][idx] = InDegreeWindow(YearOf(idx))

\* a run with a year inside the window, and the first year after the window
\* classified as outside by the 529 withdrawals
C2_Witness ==
    /\ Done
    /\ params.masters_degree_enabled
    /\ params.masters_start_year # None
    /\ \E idx \in Years : window.p529[idx] /\ window.ira[idx] /\ window.brokerage[idx]
    /\ \E idx \in Years :
          /\ YearOf(idx) = params.masters_start_year[1] + params.masters_degree_years
          /\ ~window.p529[idx]

\* C6: with a horizon of 0 years every final nominal balance is the starting
\* balance (401(k), brokerage, 529; the IRA's is 0), every contribution total
\* is 0 (401k_contributions, calculate_529_growth's total_contributions) and
\* no yearly record is produced, whatever the other parameters.
C6_ZeroHorizon ==
    /\ results.returned /\ params.years = 0 =>
          /\ results.ira_nominal = Zero
          /\ results.k401_nominal = params.starting_401k_balance
          /\ results.brokerage_nominal = params.starting_brokerage_balance
          /\ results.p529_nominal = params.starting_529_balance
          /\ results.k401_contributions = Zero
          /\ results.yearly_breakdown = <<>>
          /\ results.p529_yearly = <<>>
          /\ ira_results.year_details = <<>>
          /\ brokerage_results.year_details = <<>>
    /\ probe.fn = "calculate_529_growth" /\ scenario.years = 0 =>
          /\ probe.ret.final_balance = scenario.starting_529_balance
          /\ probe.ret.total_contributions = Zero
          /\ probe.ret.year_details = <<>>
    /\ probe.fn = "project_brokerage_balance" /\ scenario.years = 0 =>
          probe.ret = <<>>

\* a zero-horizon run with positive starting balances, a degree enabled and
\* the standalone 529 projection called
C6_Witness ==
    /\ Done
    /\ params.years = 0
    /\ params.masters_degree_enabled
    /\ RLt(Zero, params.starting_401k_balance)
    /\ RLt(Zero, params.starting_brokerage_balance)
    /\ RLt(Zero, params.starting_529_balance)
    /\ probe.fn = "calculate_529_growth"
    /\ probe.ret.final_balance = scenario.starting_529_balance

\* the balance before year index idx of a yearly sequence
Previous(start, balances, idx) == IF idx = 1 THEN start ELSE balances[idx - 1]

\* every balance is >= the previous one, and greater exactly when the year's
\* contribution is positive or the return and the previous balance are
NonDecreasing(start, balances, contributions, rate) ==
    \A idx \in 1..Len(balances) :
        LET prev == Previous(start, balances, idx)
        IN  /\ RLe(prev, balances[idx])
            /\ RLt(prev, balances[idx])
                  <=> \/ RLt(Zero, contributions[idx])
                      \/ RLt(Zero, rate) /\ RLt(Zero, prev)

\* every balance is >= the previous one, and greater when the year's
\* contribution or the return is positive
NonDecreasingAsStated(start, balances, contributions, rate) ==
    \A idx \in 1..Len(balances) :
        LET prev == Previous(start, balances, idx)
        IN  /\ RLe(prev, balances[idx])
            /\ RLt(Zero, contributions[idx]) \/ RLt(Zero, rate) => RLt(prev, balances[idx])

\* the balances of project_401k_balance and the contribution of each year
Projected401k == [idx \in Years |-> ira_results.year_details[idx].k401_balance]
Projected401kContributions ==
    [idx \in Years |-> RAdd(ira_results.year_details[idx].k401_limit,
                            ira_results.year_details[idx].k401_catchup)]

\* the contributions of the aggregator's 401(k) loop and of
\* calculate_brokerage_growth (both with the degree window), and of
\* project_brokerage_balance
Windowed401kContributions == k401.final_annual
BrokerageBalances == [idx \in Years |-> brokerage_results.year_details[idx].balance]
BrokerageContributionOf(idx) == brokerage_results.year_details[idx].contribution
BrokerageContributions == [idx \in Years |-> BrokerageContributionOf(idx)]
ProjectedBrokerageContributions ==
    [idx \in 1..scenario.years |->
        RMul(scenario.annual_brokerage_contribution,
             RPow(RAdd(One, scenario.brokerage_contribution_growth_rate), idx - 1))]

\* C7 (as amended): for the 401(k) and brokerage growth models, with
\* non-negative starting balance and contributions and market_return >= 0,
\* each yearly balance is >= the balance of the previous year (the starting
\* balance before the first), and strictly greater exactly when that year's
\* contribution is > 0, or the return is > 0 and the previous balance is > 0;
\* with and without a degree window.
C7_NonDecreasing ==
    /\ results.returned /\ RLe(Zero, params.stock_market_return) =>
          /\ NonDecreasing(params.starting_401k_balance, Projected401k,
                           Projected401kContributions, params.stock_market_return)
          /\ NonDecreasing(params.starting_401k_balance, k401.final_balances,
                           Windowed401kContributions, params.stock_market_return)
          /\ NonDecreasing(params.starting_brokerage_balance, BrokerageBalances,
                           BrokerageContributions, params.stock_market_return)
    /\ probe.fn = "project_brokerage_balance" /\ RLe(Zero, scenario.stock_market_return) =>
          NonDecreasing(scenario.starting_brokerage_balance, probe.ret,
                        ProjectedBrokerageContributions, scenario.stock_market_return)

\* C7 as stated: the same for every market_return > -1, strictly greater
\* when the contribution or the return is positive.
C7_Original ==
    /\ results.returned =>
          /\ NonDecreasingAsStated(params.starting_401k_balance, Projected401k,
                                   Projected401kContributions, params.stock_market_return)
          /\ NonDecreasingAsStated(params.starting_401k_balance, k401.final_balances,
                                   Windowed401kContributions, params.stock_market_return)
          /\ NonDecreasingAsStated(params.starting_brokerage_balance, BrokerageBalances,
                                   BrokerageContributions, params.stock_market_return)
    /\ probe.fn = "project_brokerage_balance" =>
          NonDecreasingAsStated(scenario.starting_brokerage_balance, probe.ret,
                                ProjectedBrokerageContributions,
                                scenario.stock_market_return)

\* a full-time run under a positive return whose window suspends the 401(k)
\* and brokerage contribution of a year: both balances still grow that year
C7_Witness ==
    /\ Done /\ FullTime
    /\ RLt(Zero, params.stock_market_return)
    /\ \E idx \in Years :
          /\ idx > 1
          /\ InDegreeWindow(YearOf(idx))
          /\ k401.final_annual[idx] = Zero
          /\ RLt(k401.final_balances[idx - 1], k401.final_balances[idx])
          /\ BrokerageContributionOf(idx) = Zero
          /\ RLt(BrokerageBalances[idx - 1], BrokerageBalances[idx])

Ledger == results.yearly_breakdown

\* C8 as stated: with inflation_rate >= 0 every real value the engine reports
\* is <= its nominal counterpart: for the IRA, the 401(k), the brokerage
\* account and the 529 plan, for every year of the ledger and for the grand
\* totals, for every market return > -1.  The code does not satisfy it.
C8_RealAtMostNominal ==
    results.returned /\ RLe(Zero, params.inflation_rate) =>
        /\ RLe(results.ira_real, results.ira_nominal)
        /\ RLe(results.k401_real, results.k401_nominal)
        /\ RLe(results.brokerage_real, results.brokerage_nominal)
        /\ RLe(results.p529_real, results.p529_nominal)
        /\ RLe(results.total_real, results.total_nominal)
        /\ \A idx \in 1..Len(Ledger) :
              /\ RLe(Ledger[idx].ira_future_value_real, Ledger[idx].ira_future_value)
              /\ RLe(Ledger[idx].k401_balance_real, Ledger[idx].k401_balance)
              /\ RLe(Ledger[idx].brokerage_balance_real, Ledger[idx].brokerage_balance)
              /\ RLe(Ledger[idx].total_balance_real, Ledger[idx].total_balance)

\* C9 as stated: for the IRA, the 401(k) and the brokerage account, the real
\* balance of year index i is the nominal balance of that year divided by
\* (1 + inflation_rate)^(i + 1), and the final real balance is the final
\* nominal balance divided by (1 + inflation_rate)^horizon.  The code does not
\* satisfy it.
C9_RealIsDeflatedNominal ==
    results.returned =>
        /\ results.ira_real
              = Deflate(results.ira_nominal, params.inflation_rate, params.years)
        /\ results.k401_real
              = Deflate(results.k401_nominal, params.inflation_rate, params.years)
        /\ results.brokerage_real
              = Deflate(results.brokerage_nominal, params.inflation_rate, params.years)
        /\ \A idx \in 1..Len(Ledger) :
              /\ Ledger[idx].ira_future_value_real
                    = Deflate(Ledger[idx].ira_future_value, params.inflation_rate, idx)
              /\ Ledger[idx].k401_balance_real
                    = Deflate(Ledger[idx].k401_balance, params.inflation_rate, idx)
              /\ Ledger[idx].brokerage_balance_real
                    = Deflate(Ledger[idx].brokerage_balance, params.inflation_rate, idx)

\* the sum of the three accounts other than the 529 plan
RealOfThree == RAdd(RAdd(results.ira_real, results.k401_real), results.brokerage_real)
NominalOfThree ==
    RAdd(RAdd(results.ira_nominal, results.k401_nominal), results.brokerage_nominal)

C11_TotalNominal ==
    results.returned =>
        /\ results.p529_after_tax = RSub(results.p529_nominal, results.p529_tax)
        /\ results.total_nominal =
               RAdd(results.ira_nominal,
                    RAdd(results.k401_nominal,
                         RAdd(results.brokerage_nominal,
                              RSub(results.p529_nominal, results.p529_tax))))

\* a returned run in which all four accounts hold money and the 529 tax is positive
C11_Witness ==
    /\ Done
    /\ RLt(Zero, results.ira_nominal)
    /\ RLt(Zero, results.k401_nominal)
    /\ RLt(Zero, results.brokerage_nominal)
    /\ RLt(Zero, results.p529_tax)
    /\ RLt(Zero, results.p529_after_tax)

\* the 529 balance of year index idx before the withdrawals: the previous
\* balance grown by the market return, plus the year's contribution
GrownWithContribution(idx) ==
    RAdd(RMul(Previous(params.starting_529_balance, p529.yearly, idx),
              RAdd(One, params.stock_market_return)),
         RMul(params.annual_529_contribution,
              RPow(RAdd(One, params.c529_contribution_growth_rate), idx - 1)))

\* C12: after every simulated year the 529 balance recorded in 529_yearly is
\* >= 0, whatever the tuition, employer contribution, living expense, market
\* return and degree window, also in a year whose withdrawals exceed the
\* grown balance plus the contribution.
C12_NeverNegative ==
    /\ \A idx \in 1..Len(p529.yearly) : RLe(Zero, p529.yearly[idx])
    /\ results.returned =>
          /\ results.p529_yearly = p529.yearly
          /\ RLe(Zero, results.p529_nominal)
          /\ \A idx \in Years : RLe(Zero, results.yearly_breakdown[idx].p529_balance)

\* a year whose withdrawals exceed the grown balance plus the contribution,
\* which is positive: the recorded balance is 0
C12_Witness ==
    /\ Done
    /\ \E idx \in Years :
          /\ RLt(Zero, GrownWithContribution(idx))
          /\ RLt(GrownWithContribution(idx), RAdd(p529.tuition[idx], p529.living[idx]))
          /\ results.p529_yearly[idx] = Zero

\* (1 + inflation_rate)^(year - masters_start_year) for year index idx
InflationSinceDegreeStart(idx) ==
    RPow(RAdd(One, params.inflation_rate), YearOf(idx) - params.masters_start_year[1])

\* max(0, annual_tuition * (1+inflation_rate)^(year - masters_start_year)
\*        * (0.7 if part_time else 1) - employer_contribution)
ExpectedTuition(idx) ==
    LET factor == IF params.masters_enrollment_type = "part_time" THEN RNorm(7, 10) ELSE One
        net == RSub(RMul(RMul(params.masters_annual_tuition, InflationSinceDegreeStart(idx)),
                         factor),
                    params.masters_employer_contribution)
    IN  IF RLt(net, Zero) THEN Zero ELSE net

\* the living expense of the enrollment type, inflated from the degree start
ExpectedLiving(idx) ==
    RMul(IF FullTime THEN params.ft_annual_living_expenses
         ELSE params.pt_annual_living_expenses,
         InflationSinceDegreeStart(idx))

\* C13: in a year inside the degree window the 529 tuition withdrawal is
\* max(0, annual_tuition * (1+inflation_rate)^(year - masters_start_year)
\* * (0.7 if part_time else 1) - employer_contribution) and the living
\* withdrawal is the living expense of the enrollment type times
\* (1+inflation_rate)^(year - masters_start_year), in the 529 loop and in the
\* yearly breakdown; in a year outside the window both are 0 and the 529
\* balance is the previous balance grown, plus the year's contribution.
C13_Withdrawals ==
    results.returned =>
        \A idx \in Years :
            LET rec == results.yearly_breakdown[idx]
            IN  IF InDegreeWindow(YearOf(idx))
                THEN /\ p529.tuition[idx] = ExpectedTuition(idx)
                     /\ p529.living[idx] = ExpectedLiving(idx)
                     /\ rec.p529_tuition_withdrawal = ExpectedTuition(idx)
                     /\ rec.p529_living_withdrawal = ExpectedLiving(idx)
                ELSE /\ p529.tuition[idx] = Zero
                     /\ p529.living[idx] = Zero
                     /\ rec.p529_tuition_withdrawal = Zero
                     /\ rec.p529_living_withdrawal = Zero
                     /\ results.p529_yearly[idx] = GrownWithContribution(idx)

\* a part-time run under inflation with a year before the window, a year of
\* the window whose tuition the employer covers in full, and a later year of
\* the window whose inflated tuition exceeds the employer contribution
C13_Witness ==
    /\ Done /\ ~FullTime
    /\ RLt(Zero, params.inflation_rate)
    /\ \E a, b, c \in Years :
          /\ ~InDegreeWindow(YearOf(a))
          /\ RLt(Zero, results.p529_yearly[a])
          /\ InDegreeWindow(YearOf(b))
          /\ results.yearly_breakdown[b].p529_tuition_withdrawal = Zero
          /\ RLt(Zero, results.yearly_breakdown[b].p529_living_withdrawal)
          /\ InDegreeWindow(YearOf(c))
          /\ YearOf(c) > params.masters_start_year[1]
          /\ RLt(Zero, results.yearly_breakdown[c].p529_tuition_withdrawal)

\* the aggregator was called again with the parameters of its first call,
\* after a call with the parameters as drawn and the standalone calls, and
\* has returned
Repeated == results.returned /\ call = 5

MaxYearsAhead == 10

ProbeYears == 2021..(BaseYear + MaxYearsAhead)
ProbeAges == {25, 49, 50}
ProbeStatuses == SupportedStatus \cup {"hoh", "separate_not_lived", "invalid_status"}
ProbeMagis == {-1, 0, 5000, 9999, 10000, 67000, 72000, 77000, 82000, 87000,
               113000, 123000, 133000, 143000, 139999, 140000, 149999, 150000, 155000,
               160000, 164999, 165000, 174999, 175000, 220000, 225000, 229999, 230000,
               235000, 239999, 240000, 245000, 249999, 250000, 300000}
ProbeGrowthRates == {<<-3, 4>>, <<-1, 2>>, Zero, <<1, 2>>}
ProbeBalances == {0, 1, 5000, 10099, 11600, 11601, 20198, 23200, 30000, 47150, 50000,
                  75576, 100525, 150000, 250000, 400000, 700000, 1000000, 1400000}

\* years and growth rates of the direct calls of the 401(k) projectors: two
\* years before the tables, the tables' twenty years, the years after them
FirstTableYear == 2006
ProjectionYears == (FirstTableYear - 2)..(BaseYear + MaxYearsAhead)
ProjectionRates == ProbeGrowthRates \cup {<<1, 50>>}

\* the (year, growth rate) pairs whose compounding stays within the integers
\* of the checker: the small rate for the years up to the base year, no
\* negative rate for the years before the tables
Projectable(year, growth_rate) ==
    /\ year > BaseYear => growth_rate \in ProbeGrowthRates
    /\ year < FirstTableYear => RLe(Zero, growth_rate)

\* years and categories of the direct calls of get_phaseout: two decades
\* before the base year, one after it
PhaseOutYears == (BaseYear - 2 * MaxYearsAhead)..(BaseYear + MaxYearsAhead)
PhaseOutKeys == {"roth_single", "roth_joint", "trad_deduct_single", "trad_deduct_joint"}

\* arguments of the direct calls of the 529 projections
Plan529Years == 0..MaxYears
Plan529Balances == {0, 10000}
Plan529Contributions == {0, 5000}
Plan529Returns == {<<-1, 2>>, Zero, <<7, 100>>}

\* arguments of the direct calls of the brokerage projection
BrokerageYears == 0..MaxYears
BrokerageBalancesDrawn == {0, 5000}
BrokerageContributionsDrawn == {0, 1000}

InitPolicy ==
    /\ tables = ModuleTables
    /\ scenario = CHOOSE sc \in Scenarios : sc.years = 0
    /\ call = 0
    /\ pc = "policy"
    /\ params = scenario
    /\ i = 0
    /\ ira_results = NoResults
    /\ k401 = NoK401
    /\ brokerage_results = NoResults
    /\ p529 = NoP529
    /\ results = NoResults
    /\ baseline = NoResults
    /\ window = NoWindow
    /\ probe = NoProbe

aggregator == <<tables, scenario, call, pc, params, i, ira_results, k401, brokerage_results, p529,
                results, baseline, window>>

CallMaxIraContribution ==
    /\ pc = "policy"
    /\ probe = NoProbe
    /\ \E year \in ProbeYears, age \in ProbeAges, filing_status \in ProbeStatuses,
          magi \in ProbeMagis, plan_covered \in BOOLEAN :
          probe' = [fn |-> "max_ira_contribution",
                    year |-> year, age |-> age, filing_status |-> filing_status,
                    magi |-> R(magi), plan_covered |-> plan_covered,
                    ret |-> max_ira_contribution(year, age, filing_status, R(magi),
                                                 plan_covered)]
    /\ UNCHANGED aggregator

CallMax401kContribution ==
    /\ pc = "policy"
    /\ probe = NoProbe
    /\ \E year \in ProbeYears, age \in ProbeAges, growth_rate \in ProbeGrowthRates :
          probe' = [fn |-> "max_401k_contribution",
                    year |-> year, age |-> age, growth_rate |-> growth_rate,
                    ret |-> max_401k_contribution(year, age, growth_rate)]
    /\ UNCHANGED aggregator

\* the earlier policy of ira_calculator_module.py, called directly
CallEarlierMaxIraContribution ==
    /\ pc = "policy"
    /\ probe = NoProbe
    /\ \E year \in ProbeYears, age \in ProbeAges, filing_status \in ProbeStatuses,
          magi \in ProbeMagis, plan_covered \in BOOLEAN :
          probe' = [fn |-> "ira_calculator_module.max_ira_contribution",
                    year |-> year, age |-> age, filing_status |-> filing_status,
                    magi |-> R(magi), plan_covered |-> plan_covered,
                    ret |-> ira_calculator_module_max_ira_contribution(
                                year, age, filing_status, R(magi), plan_covered)]
    /\ UNCHANGED aggregator

\* calculate_529_withdrawal_tax called for a balance and for a larger one
CallWithdrawalTax ==
    /\ pc = "policy"
    /\ probe = NoProbe
    /\ \E balance_529 \in ProbeBalances, larger \in ProbeBalances, filing_status \in ProbeStatuses :
          /\ balance_529 <= larger
          /\ probe' = [fn |-> "calculate_529_withdrawal_tax",
                       balance_529 |-> R(balance_529), filing_status |-> filing_status,
                       ret |-> calculate_529_withdrawal_tax(R(balance_529), filing_status),
                       larger |-> R(larger),
                       ret_larger |-> calculate_529_withdrawal_tax(R(larger), filing_status)]
    /\ UNCHANGED aggregator

CallProjectedLimit ==
    /\ pc = "policy"
    /\ probe = NoProbe
    /\ \E year \in ProbeYears :
          probe' = [fn |-> "projected_limit", year |-> year, ret |-> projected_limit(year)]
    /\ UNCHANGED aggregator

\* projected_401k_limit called for a year and for a later one
CallProjected401kLimit ==
    /\ pc = "policy"
    /\ probe = NoProbe
    /\ \E year \in ProjectionYears, later \in ProjectionYears, growth_rate \in ProjectionRates :
          /\ year <= later
          /\ Projectable(year, growth_rate) /\ Projectable(later, growth_rate)
          /\ probe' = [fn |-> "projected_401k_limit", year |-> year, later |-> later,
                       growth_rate |-> growth_rate,
                       ret |-> projected_401k_limit(year, growth_rate),
                       ret_later |-> projected_401k_limit(later, growth_rate)]
    /\ UNCHANGED aggregator

\* projected_401k_catchup called for a year and for a later one
CallProjected401kCatchup ==
    /\ pc = "policy"
    /\ probe = NoProbe
    /\ \E year \in ProjectionYears, later \in ProjectionYears, growth_rate \in ProjectionRates :
          /\ year <= later
          /\ Projectable(year, growth_rate) /\ Projectable(later, growth_rate)
          /\ probe' = [fn |-> "projected_401k_catchup", year |-> year, later |-> later,
                       growth_rate |-> growth_rate,
                       ret |-> projected_401k_catchup(year, growth_rate),
                       ret_later |-> projected_401k_catchup(later, growth_rate)]
    /\ UNCHANGED aggregator

\* get_phaseout called for a year and for a later one
CallGetPhaseout ==
    /\ pc = "policy"
    /\ probe = NoProbe
    /\ \E year \in PhaseOutYears, later \in PhaseOutYears, key \in PhaseOutKeys :
          /\ year <= later
          /\ probe' = [fn |-> "get_phaseout", year |-> year, later |-> later, key |-> key,
                       ret |-> get_phaseout(year, key),
                       ret_later |-> get_phaseout(later, key)]
    /\ UNCHANGED aggregator

\* calculate_529_growth(..., return_details=True) called directly
CallCalculate529Growth ==
    /\ pc = "policy"
    /\ probe = NoProbe
    /\ \E years \in Plan529Years, starting_balance \in Plan529Balances,
          annual_contribution \in Plan529Contributions,
          stock_market_return \in Plan529Returns, inflation_rate \in InflationRates :
          probe' = [fn |-> "calculate_529_growth(direct)", years |-> years,
                    starting_balance |-> R(starting_balance),
                    annual_contribution |-> R(annual_contribution),
                    stock_market_return |-> stock_market_return,
                    inflation_rate |-> inflation_rate,
                    ret |-> calculate_529_growth(2025, years, R(starting_balance),
                                                 R(annual_contribution),
                                                 stock_market_return, inflation_rate)]
    /\ UNCHANGED aggregator

\* project_529_balance called directly
CallProject529Balance ==
    /\ pc = "policy"
    /\ probe = NoProbe
    /\ \E years \in Plan529Years, starting_balance \in Plan529Balances,
          annual_contribution \in Plan529Contributions,
          stock_market_return \in Plan529Returns :
          probe' = [fn |-> "project_529_balance", years |-> years,
                    starting_balance |-> R(starting_balance),
                    annual_contribution |-> R(annual_contribution),
                    stock_market_return |-> stock_market_return,
                    ret |-> project_529_balance(2025, years, R(starting_balance),
                                                R(annual_contribution),
                                                stock_market_return)]
    /\ UNCHANGED aggregator

\* calculate_brokerage_growth(..., return_details=True) with no degree, and
\* print_brokerage_analysis_table applied to what it returned
CallPrintBrokerageAnalysisTable ==
    /\ pc = "policy"
    /\ probe = NoProbe
    /\ \E years \in BrokerageYears, starting_balance \in BrokerageBalancesDrawn,
          annual_contribution \in BrokerageContributionsDrawn,
          stock_market_return \in MarketReturns, inflation_rate \in InflationRates :
          LET analysis_data ==
                  calculate_brokerage_growth(2025, years, R(starting_balance),
                                             R(annual_contribution), <<1, 2>>,
                                             stock_market_return, inflation_rate,
                                             NoDegree(params))
          IN  probe' = [fn |-> "print_brokerage_analysis_table", years |-> years,
                        analysis_data |-> analysis_data,
                        ret |-> print_brokerage_analysis_table(analysis_data)]
    /\ UNCHANGED aggregator

NextPolicy ==
    \/ CallMaxIraContribution
    \/ CallPrintBrokerageAnalysisTable
    \/ CallCalculate529Growth
    \/ CallProject529Balance
    \/ CallGetPhaseout
    \/ CallProjected401kLimit
    \/ CallProjected401kCatchup
    \/ CallProjectedLimit
    \/ CallMax401kContribution
    \/ CallWithdrawalTax
    \/ CallEarlierMaxIraContribution

SpecPolicy == InitPolicy /\ [][NextPolicy]_vars

(***************************************************************************)
(* Properties of the contribution policy and the limit projector           *)
(* (SpecPolicy).                                                           *)
(***************************************************************************)
IraProbe == probe.fn = "max_ira_contribution" /\ probe.filing_status \in SupportedStatus

\* projected_limit(year) + (1000 if age >= 50 else 0)
IraLimitWithCatchUp(year, age) == R(projected_limit(year) + (IF age >= 50 THEN 1000 ELSE 0))

\* the value max_ira_contribution returns at another magi, all else as probed
IraAtMagi(m) ==
    max_ira_contribution(probe.year, probe.age, probe.filing_status, R(m),
                         probe.plan_covered).value

\* max_ira_contribution is non-increasing in magi and is max_total below low,
\* (low, high) being the Roth range of the filing status
IraNonIncreasingFullBelowLow ==
    LET range == RothRange(probe.year, probe.filing_status)
    IN  /\ ~probe.ret.raised
        /\ \A m \in ProbeMagis : RLe(R(m), probe.magi) => RLe(probe.ret.value, IraAtMagi(m))
        /\ RLt(probe.magi, R(range[1]))
              => probe.ret.value = IraLimitWithCatchUp(probe.year, probe.age)

IraZeroFromHigh ==
    RLe(R(RothRange(probe.year, probe.filing_status)[2]), probe.magi)
        => probe.ret.value = Zero

\* C3 (as amended): for every year, age, supported filing status and
\* plan_covered, max_ira_contribution is non-increasing in magi and returns
\* max_total for every magi < low; it returns exactly 0 for every
\* magi >= high when plan_covered is True.
C3_PhaseOutCovered ==
    IraProbe => /\ IraNonIncreasingFullBelowLow
                /\ probe.plan_covered => IraZeroFromHigh

\* C3 as stated: the same, with exactly 0 for every magi >= high for
\* plan_covered both True and False.
C3_Original ==
    IraProbe => IraNonIncreasingFullBelowLow /\ IraZeroFromHigh

\* a covered call inside the Roth range that returns a partial amount
C3_Witness ==
    /\ IraProbe
    /\ probe.plan_covered
    /\ RLt(R(RothRange(probe.year, probe.filing_status)[1]), probe.magi)
    /\ RLt(probe.magi, R(RothRange(probe.year, probe.filing_status)[2]))
    /\ RLt(Zero, probe.ret.value)
    /\ RLt(probe.ret.value, IraLimitWithCatchUp(probe.year, probe.age))

\* C4: with plan_covered False, max_ira_contribution returns
\* projected_limit(year) + (1000 if age >= 50 else 0) for every magi and every
\* supported filing status: 7000 for 2025 at age 25, 8000 at age 50.
C4_UncoveredIsMaxTotal ==
    IraProbe /\ ~probe.plan_covered =>
        /\ ~probe.ret.raised
        /\ probe.ret.value = IraLimitWithCatchUp(probe.year, probe.age)
        /\ probe.year = 2025 /\ probe.age = 25 => probe.ret.value = R(7000)
        /\ probe.year = 2025 /\ probe.age = 50 => probe.ret.value = R(8000)

\* an uncovered call above the top of the Roth range, for 2025 at age 50
C4_Witness ==
    /\ IraProbe
    /\ ~probe.plan_covered
    /\ probe.year = 2025 /\ probe.age = 50
    /\ RLe(R(RothRange(probe.year, probe.filing_status)[2]), probe.magi)
    /\ probe.ret.value = R(8000)

K401Probe == probe.fn = "max_401k_contribution"

\* max_401k_contribution at an age, with the probed year and growth rate; the
\* probed call itself where the age is the probed one
K401AtAge(age) ==
    IF probe.age = age THEN probe.ret
    ELSE max_401k_contribution(probe.year, age, probe.growth_rate)

K401DifferenceIsCatchUp ==
    /\ RSub(K401AtAge(50), K401AtAge(49))
          = projected_401k_catchup(probe.year, probe.growth_rate)
    /\ probe.year = 2025 => K401AtAge(49) = R(23500) /\ K401AtAge(50) = R(31000)

\* C5 (as amended): for every year and growth rate g,
\* max_401k_contribution(year, 49, g) <= max_401k_contribution(year, 50, g), the
\* difference is projected_401k_catchup(year, growth_rate=g) exactly, and the
\* inequality is strict exactly when that catch-up is positive; for 2025 the
\* values are 23500 and 31000.
C5_CatchUpAt50 ==
    K401Probe =>
        /\ K401DifferenceIsCatchUp
        /\ RLe(K401AtAge(49), K401AtAge(50))
        /\ RLt(K401AtAge(49), K401AtAge(50))
              <=> RLt(Zero, projected_401k_catchup(probe.year, probe.growth_rate))

\* C5 as stated: strictly less for every year and growth rate.
C5_Original ==
    K401Probe => K401DifferenceIsCatchUp /\ RLt(K401AtAge(49), K401AtAge(50))

\* a call at age 50 for a projected year under a negative growth rate whose
\* catch-up rounds to 0
C5_Witness ==
    /\ K401Probe
    /\ probe.age = 50
    /\ probe.year \notin DOMAIN HISTORICAL_401K_CATCHUP
    /\ RLt(probe.growth_rate, Zero)
    /\ projected_401k_catchup(probe.year, probe.growth_rate) = Zero
    /\ probe.ret = K401AtAge(49)

\* the part of a balance lying between the bounds of a bracket
PartInBracket(balance, b) ==
    IF RLe(balance, R(b.min)) THEN Zero
    ELSE IF b.top \/ RLe(balance, R(b.max)) THEN RSub(balance, R(b.min))
    ELSE R(b.max - b.min)

\* the marginal-bracket tax on a balance: each bracket's rate on its part
RECURSIVE MarginalTax(_, _, _)
MarginalTax(brackets, k, balance) ==
    IF k > Len(brackets) THEN Zero
    ELSE RAdd(RMul(PartInBracket(balance, brackets[k]), brackets[k].rate),
              MarginalTax(brackets, k + 1, balance))

TaxProbe == probe.fn = "calculate_529_withdrawal_tax"

\* C14: for every balance >= 0, calculate_529_withdrawal_tax(balance,
\* filing_status) is the federal marginal-bracket tax on the balance plus the
\* state marginal-bracket tax on it plus 0.10 * balance, each bracket taxing
\* only the part of the balance between its lower and upper bound, with the
\* joint tables exactly when filing_status is 'joint' and the single tables
\* for every other status.
C14_MarginalTaxPlusPenalty ==
    TaxProbe =>
        LET joint == probe.filing_status = "joint"
            federal == MarginalTax(IF joint THEN federal_brackets_joint
                                   ELSE federal_brackets_single, 1, probe.balance_529)
            state == MarginalTax(IF joint THEN california_brackets_joint
                                 ELSE california_brackets_single, 1, probe.balance_529)
        IN  probe.ret = RAdd(RAdd(federal, state),
                             RDiv(probe.balance_529, R(10)))

\* a joint withdrawal that reaches the top federal bracket but not the top
\* state bracket
C14_Witness ==
    /\ TaxProbe
    /\ probe.filing_status = "joint"
    /\ RLt(R(731200), probe.balance_529)
    /\ RLt(probe.balance_529, R(1354550))
    /\ RLt(Zero, probe.ret)

\* C15: max_ira_contribution raises the unsupported-filing-status error
\* (ValueError) for every filing_status outside the recognized set, for every
\* year, age, MAGI and plan_covered value, and returns no amount then.
C15_UnsupportedStatusRaises ==
    probe.fn = "max_ira_contribution"
        /\ probe.filing_status \notin {"single", "joint", "separate_lived"}
        => probe.ret.raised /\ probe.ret.value = NoValue

\* the call of the cited test, with a MAGI below every range, and under plan
\* coverage: it raised
C15_Witness ==
    /\ probe.fn = "max_ira_contribution"
    /\ probe.filing_status = "invalid_status"
    /\ probe.year = 2025 /\ probe.age = 25 /\ probe.magi = R(5000)
    /\ probe.plan_covered
    /\ probe.ret.raised

\* the Roth range the statement assigns to a filing status, from the table
\* of the module that was called
StatedRothRange ==
    LET single == IF probe.fn = "max_ira_contribution"
                  THEN get_phaseout(probe.year, "roth_single")
                  ELSE ira_calculator_module_get_phaseout(probe.year, "roth_single")
        joint == IF probe.fn = "max_ira_contribution"
                 THEN get_phaseout(probe.year, "roth_joint")
                 ELSE ira_calculator_module_get_phaseout(probe.year, "roth_joint")
    IN  IF probe.filing_status \in {"single", "hoh", "separate_not_lived"} THEN single
        ELSE IF probe.filing_status = "joint" THEN joint
        ELSE <<0, 10000>>

\* C16: max_ira_contribution accepts the filing statuses single,
\* head-of-household and separated-not-living-together and applies the
\* roth_single phase-out range to each of them (joint uses roth_joint,
\* separated-living-apart the fixed range (0, 10000)), returning an amount
\* without raising, with and without plan coverage.
C16_AcceptsHeadOfHousehold ==
    probe.fn \in {"max_ira_contribution", "ira_calculator_module.max_ira_contribution"}
        /\ probe.filing_status
              \in {"single", "hoh", "separate_not_lived", "joint", "separate_lived"}
        => /\ ~probe.ret.raised
           /\ RLe(PhaseOutAmount(IraLimitWithCatchUp(probe.year, probe.age), probe.magi,
                                 StatedRothRange),
                  probe.ret.value)
           /\ ~probe.plan_covered
                 => probe.ret.value = IraLimitWithCatchUp(probe.year, probe.age)

(***************************************************************************)
(* The IRA limit of a year (SpecPolicy).                                   *)
(***************************************************************************)
LimitProbe == probe.fn = "projected_limit"

\* the limits the tax code fixed for 2022 to 2025
StatedBaseLimit(year) ==
    CASE year = 2022 -> 6000
      [] year = 2023 -> 6500
      [] year = 2024 -> 7000
      [] year = 2025 -> 7000

\* C18: projected_limit(year) is the table's value for 2022 to 2025 and
\* 6000 + floor((year - 2022) / 2) * 500 for every other year; the limit of
\* every year after 2025 is a multiple of 500 and at least 7000.
C18_ProjectedLimit ==
    LimitProbe =>
        /\ probe.year \in 2022..2025 => probe.ret = StatedBaseLimit(probe.year)
        /\ probe.year \notin 2022..2025 =>
              probe.ret = 6000 + ((probe.year - 2022) \div 2) * 500
        /\ probe.year > 2025 => probe.ret % 500 = 0 /\ probe.ret >= 7000

\* a year after the table whose limit has climbed above the last fixed one
C18_Witness ==
    /\ LimitProbe
    /\ probe.year > 2025
    /\ probe.ret > StatedBaseLimit(2025)
(***************************************************************************)
(* The 401(k) limit and catch-up of a year (SpecPolicy).                   *)
(***************************************************************************)
Projection401kProbe == probe.fn \in {"projected_401k_limit", "projected_401k_catchup"}

\* the table the probed function reads and the value of its last year
StatedTable == IF probe.fn = "projected_401k_limit" THEN HISTORICAL_401K_LIMITS ELSE HISTORICAL_401K_CATCHUP
StatedBase == IF probe.fn = "projected_401k_limit" THEN 23500 ELSE 7500

\* ret is a multiple of 500 at most 250 away from the enclosed product
NearestMultipleOf500(ret, projected) ==
    /\ ret[2] = 1
    /\ ret[1] % 500 = 0
    /\ RLe(RSub(ret, R(250)), projected[1])
    /\ RLe(projected[2], RAdd(ret, R(250)))

\* the value stated for a year: the table's inside the tables, the base
\* year's value compounded and rounded outside them
AsStatedFor(year, ret) ==
    IF year \in FirstTableYear..BaseYear
    THEN ret = R(StatedTable[year])
    ELSE NearestMultipleOf500(ret, Compounded(StatedBase, probe.growth_rate, year - 2025))

\* C19: outside the historical tables projected_401k_limit and
\* projected_401k_catchup return the 2025 value (23500, 7500) compounded by
\* (1 + growth_rate)^(year - 2025) and rounded to the nearest multiple of 500;
\* inside the tables they return the table's value whatever the growth rate;
\* with a positive growth rate the value of a later year is never below that
\* of an earlier year, provided the earlier year is not before the tables.
C19_Projected401k ==
    Projection401kProbe =>
        /\ AsStatedFor(probe.year, probe.ret)
        /\ AsStatedFor(probe.later, probe.ret_later)
        /\ RLt(Zero, probe.growth_rate) /\ probe.year >= FirstTableYear =>
              RLe(probe.ret, probe.ret_later)

\* C19 as stated: the later year is never below the earlier one for every
\* pair of years, the years before the tables included.
C19_Original ==
    Projection401kProbe =>
        /\ AsStatedFor(probe.year, probe.ret)
        /\ AsStatedFor(probe.later, probe.ret_later)
        /\ RLt(Zero, probe.growth_rate) => RLe(probe.ret, probe.ret_later)

\* two years after the tables under a positive growth rate, the later one
\* with the higher limit
C19_Witness ==
    /\ probe.fn = "projected_401k_limit"
    /\ RLt(Zero, probe.growth_rate)
    /\ probe.year > BaseYear
    /\ probe.later > probe.year
    /\ RLt(R(23500), probe.ret)
    /\ RLt(probe.ret, probe.ret_later)
(***************************************************************************)
(* The phase-out range of a year (SpecPolicy).                             *)
(***************************************************************************)
PhaseoutProbe == probe.fn = "get_phaseout"

\* the 2025 pair of a category, both bounds raised by 10000 per whole decade
\* since 2025 (floor division: the years before 2025 count as decade -1)
StatedPhaseout(year, key) ==
    LET shift == 10000 * ((year - 2025) \div 10)
    IN  <<PHASE_OUT[2025][key][1] + shift, PHASE_OUT[2025][key][2] + shift>>

\* C20: for every year other than 2025 and each of the four categories,
\* get_phaseout returns the 2025 pair with 10000 * floor((year - 2025) / 10)
\* added to both bounds; the width high - low is that of 2025 for every year
\* and the thresholds of a later year are never below those of an earlier one.
C20_Phaseout ==
    PhaseoutProbe =>
        /\ probe.year # 2025 => probe.ret = StatedPhaseout(probe.year, probe.key)
        /\ probe.later # 2025 => probe.ret_later = StatedPhaseout(probe.later, probe.key)
        /\ probe.ret[2] - probe.ret[1] = PHASE_OUT[2025][probe.key][2] - PHASE_OUT[2025][probe.key][1]
        /\ probe.ret_later[2] - probe.ret_later[1] = probe.ret[2] - probe.ret[1]
        /\ probe.ret[1] <= probe.ret_later[1]
        /\ probe.ret[2] <= probe.ret_later[2]

\* a year before 2025 and a year a decade after it: the range of the first
\* lies 10000 below the 2025 range, that of the second 10000 above it
C20_Witness ==
    /\ PhaseoutProbe
    /\ probe.year < 2025
    /\ probe.later >= 2035
    /\ probe.ret[1] = PHASE_OUT[2025][probe.key][1] - 10000
    /\ probe.ret_later[2] = PHASE_OUT[2025][probe.key][2] + 10000
(***************************************************************************)
(* The yearly breakdown (Spec).                                            *)
(***************************************************************************)
\* the records appended so far are the first records afterwards
RecordsKept ==
    /\ Len(results'.yearly_breakdown) >= Len(results.yearly_breakdown)
    /\ \A k \in 1..Len(results.yearly_breakdown) :
          results'.yearly_breakdown[k] = results.yearly_breakdown[k]

\* the k-th record is that of year start_year + k - 1 and of age age + k - 1
RecordsInOrder ==
    \A k \in 1..Len(results.yearly_breakdown) :
        /\ results.yearly_breakdown[k].year = params.start_year + k - 1
        /\ results.yearly_breakdown[k].age = params.age + k - 1
        /\ k > 1 => results.yearly_breakdown[k - 1].year < results.yearly_breakdown[k].year

\* C21: with return_details = True the returned yearly_breakdown has exactly
\* `years` records in strictly ascending year order, the i-th one of year
\* start_year + i and age age + i, and no step of the ledger loop changes a
\* record that was appended before.
C21_YearlyBreakdown ==
    /\ [](pc = "ledger" => RecordsInOrder)
    /\ [](results.returned /\ params.return_details =>
             Len(results.yearly_breakdown) = params.years /\ RecordsInOrder)
    /\ [][pc = "ledger" => RecordsKept]_vars

\* a returned breakdown of several years whose first 401(k) balance would
\* differ had it been compounded again
C21_Witness ==
    /\ results.returned
    /\ params.return_details
    /\ params.years >= 2
    /\ Len(results.yearly_breakdown) = params.years
    /\ results.yearly_breakdown[1].k401_balance # Zero
    /\ params.stock_market_return # Zero
(***************************************************************************)
(* The standalone 529 projections (SpecPolicy).                            *)
(***************************************************************************)
Growth529Probe == probe.fn = "calculate_529_growth(direct)"
Project529Probe == probe.fn = "project_529_balance"

\* the yearly balances the probed function returned
Balances529 ==
    IF Growth529Probe
    THEN [k \in 1..Len(probe.ret.year_details) |-> probe.ret.year_details[k].balance]
    ELSE probe.ret

\* each balance is the one before it times (1 + stock_market_return) plus
\* annual_contribution, the first one starting from starting_balance
GrowthBeforeContribution(balances) ==
    \A k \in 1..Len(balances) :
        balances[k] = RAdd(RMul(IF k = 1 THEN probe.starting_balance ELSE balances[k - 1],
                                RAdd(One, probe.stock_market_return)),
                           probe.annual_contribution)

\* 10000 with 5000 per year at 7%
StatedExample ==
    /\ probe.starting_balance = R(10000)
    /\ probe.annual_contribution = R(5000)
    /\ probe.stock_market_return = <<7, 100>>
    /\ probe.years = 2

\* C22: calculate_529_growth and project_529_balance apply the growth before
\* the contribution in every year, starting from starting_balance (10000 with
\* 5000 per year at 7% gives 15700 then 21799), and total_contributions is
\* years * annual_contribution.
C22_GrowthThenContribution ==
    Growth529Probe \/ Project529Probe =>
        /\ Len(Balances529) = probe.years
        /\ GrowthBeforeContribution(Balances529)
        /\ StatedExample => Balances529 = <<R(15700), R(21799)>>
        /\ Growth529Probe =>
              /\ probe.ret.total_contributions = RMul(R(probe.years), probe.annual_contribution)
              /\ probe.ret.final_balance = IF probe.years = 0 THEN probe.starting_balance
                                            ELSE Balances529[probe.years]

\* the stated example, run through calculate_529_growth
C22_Witness ==
    /\ Growth529Probe
    /\ StatedExample
    /\ probe.ret.final_balance = R(21799)
    /\ probe.ret.total_contributions = R(10000)
(***************************************************************************)
(* Part-time enrollment (Spec).                                            *)
(***************************************************************************)
PartTime == params.masters_degree_enabled /\ params.masters_enrollment_type = "part_time"

\* C23: under part_time enrollment a degree window suspends no contribution:
\* the IRA, 401(k) and brokerage contribution of every year and the final
\* nominal balances of the three accounts are those of the degree-disabled
\* run.
C23_PartTimeSuspendsNothing ==
    Done /\ PartTime =>
        /\ \A idx \in Years :
              /\ ira_results.year_details[idx].ira_contribution
                     = baseline.ira_details.year_details[idx].ira_contribution
              /\ k401.annual[idx] = baseline.k401.annual[idx]
              /\ k401.final_annual[idx] = baseline.k401.final_annual[idx]
              /\ brokerage_results.year_details[idx].contribution
                     = baseline.brokerage_details.year_details[idx].contribution
              /\ results.yearly_breakdown[idx].k401_balance
                     = baseline.results.yearly_breakdown[idx].k401_balance
        /\ results.k401_contributions = baseline.results.k401_contributions
        /\ results.ira_nominal = baseline.results.ira_nominal
        /\ results.k401_nominal = baseline.results.k401_nominal
        /\ results.brokerage_nominal = baseline.results.brokerage_nominal

\* a part-time run with a year inside the window whose three contributions
\* are positive, and whose 529 balance ends below that of the baseline
C23_Witness ==
    /\ Done /\ PartTime
    /\ \E idx \in Years :
          /\ InDegreeWindow(YearOf(idx))
          /\ RLt(Zero, ira_results.year_details[idx].ira_contribution)
          /\ RLt(Zero, k401.final_annual[idx])
          /\ RLt(Zero, brokerage_results.year_details[idx].contribution)
    /\ RLt(results.p529_nominal, baseline.results.p529_nominal)
(***************************************************************************)
(* The brokerage analysis table (SpecPolicy).                              *)
(***************************************************************************)
PrintProbe == probe.fn = "print_brokerage_analysis_table"

\* C24: every year_details record of calculate_brokerage_growth carries the
\* keys year, contribution, balance, balance_real, years_to_grow,
\* future_value and future_value_real, so print_brokerage_analysis_table
\* applied to a result of one year or more does not raise.
C24_DetailKeys ==
    PrintProbe =>
        /\ \A k \in 1..Len(probe.analysis_data.year_details) :
              TableKeys \subseteq DOMAIN probe.analysis_data.year_details[k]
        /\ probe.years >= 1 => ~probe.ret.raised
(***************************************************************************)
(* The MAGI of each year of the IRA projection (Spec).                     *)
(***************************************************************************)
IraProjected == ira_results # NoResults

\* starting_magi * (1 + magi_growth_rate)^(idx - 1)
MagiOfYear(idx) ==
    RMul(params.starting_magi, RPow(RAdd(One, params.magi_growth_rate), idx - 1))

\* C25: the IRA contribution of year index i is computed from the MAGI of
\* that year, starting_magi * (1 + magi_growth_rate)^i, before the MAGI is
\* grown for the next year; the MAGI sequence is fixed by starting_magi and
\* magi_growth_rate and is the same with and without the degree window.
C25_MagiOfTheYear ==
    /\ IraProjected =>
          \A idx \in Years :
              /\ ira_results.year_details[idx].magi = MagiOfYear(idx)
              /\ ira_results.year_details[idx].ira_contribution =
                     IF InDegreeWindow(YearOf(idx)) /\ FullTime THEN Zero
                     ELSE max_ira_contribution(YearOf(idx), params.age + idx - 1,
                                               params.filing_status, MagiOfYear(idx),
                                               params.plan_covered).value
    /\ Done =>
          \A idx \in Years :
              ira_results.year_details[idx].magi = baseline.ira_details.year_details[idx].magi

\* a run whose degree window changed the 401(k) balance and whose second
\* year's contribution is cut by the phase-out the grown MAGI has entered
C25_Witness ==
    /\ Done
    /\ params.years >= 2
    /\ results.k401_nominal # baseline.results.k401_nominal
    /\ RLt(ira_results.year_details[1].magi, ira_results.year_details[2].magi)
    /\ \E idx \in Years :
          /\ idx >= 2
          /\ RLt(Zero, ira_results.year_details[idx].ira_contribution)
          /\ RLt(ira_results.year_details[idx].ira_contribution,
                 baseline.ira_details.year_details[1].ira_contribution)
(***************************************************************************)
(* The two records of the 401(k) balance (Spec).                           *)
(***************************************************************************)
\* C26: for every year index the 401(k) balance recorded in the IRA details
\* equals the 401(k) balance recorded in the yearly breakdown of the same
\* result, a full-time degree window covering simulated years included.
C26_Same401kBalance ==
    results.returned /\ params.return_details =>
        \A idx \in Years :
            ira_results.year_details[idx].k401_balance
                = results.yearly_breakdown[idx].k401_balance
(***************************************************************************)
(* The last record of the yearly breakdown and the aggregate results       *)
(* (Spec).                                                                 *)
(***************************************************************************)
Detailed == results.returned /\ params.return_details /\ params.years >= 1
LastRecord == results.yearly_breakdown[params.years]

\* C27: the last yearly_breakdown record agrees with the aggregate nominal
\* results: 401k_balance = 401k_nominal, 529_balance = 529_nominal,
\* ira_future_value = ira_nominal, brokerage_balance = brokerage_nominal and
\* total_balance + 529_after_tax = total_nominal.
C27_LastRecordIsAggregate ==
    Detailed =>
        /\ LastRecord.k401_balance = results.k401_nominal
        /\ LastRecord.p529_balance = results.p529_nominal
        /\ LastRecord.ira_future_value = results.ira_nominal
        /\ LastRecord.brokerage_balance = results.brokerage_nominal
        /\ RAdd(LastRecord.total_balance, results.p529_after_tax) = results.total_nominal

\* a full-time run of several years with a year inside the window and a
\* later year outside it, whose four balances are positive
C27_Witness ==
    /\ Detailed /\ Done /\ FullTime
    /\ \E idx \in Years :
          /\ InDegreeWindow(YearOf(idx))
          /\ idx < params.years
          /\ ~InDegreeWindow(YearOf(params.years))
    /\ RLt(Zero, LastRecord.k401_balance)
    /\ RLt(Zero, LastRecord.p529_balance)
    /\ RLt(Zero, LastRecord.ira_future_value)
    /\ RLt(Zero, LastRecord.brokerage_balance)
(***************************************************************************)
(* The real total of the last record and the aggregate real total (Spec).  *)
(***************************************************************************)
\* C28: the real total of the last yearly_breakdown record plus
\* 529_after_tax / (1 + inflation_rate)^years equals the aggregate
\* total_real; equivalently the brokerage real value of the ledger equals the
\* brokerage real value of the aggregate.
C28_LastRealIsAggregateReal ==
    Detailed =>
        /\ RAdd(LastRecord.total_balance_real,
                Deflate(results.p529_after_tax, params.inflation_rate, params.years))
               = results.total_real
        /\ LastRecord.brokerage_balance_real = results.brokerage_real
        /\ brokerage_results.total_accumulated_real = brokerage_results.final_balance_real
(***************************************************************************)
(* Bounds of the 529 withdrawal tax (SpecPolicy).                          *)
(***************************************************************************)
\* C29: for every balance >= 0 and every filing status the withdrawal tax is
\* at least 0 and at most the balance, so the after-tax amount is neither
\* negative nor above the balance; and the tax of a larger balance is never
\* below the tax of a smaller one.
C29_TaxWithinBalance ==
    TaxProbe =>
        /\ RLe(Zero, probe.ret)
        /\ RLe(probe.ret, probe.balance_529)
        /\ RLe(Zero, RSub(probe.balance_529, probe.ret))
        /\ RLe(RSub(probe.balance_529, probe.ret), probe.balance_529)
        /\ RLe(Zero, probe.ret_larger)
        /\ RLe(probe.ret_larger, probe.larger)
        /\ RLe(probe.ret, probe.ret_larger)

\* a positive balance and a larger one in the top brackets, the second taxed
\* more than the first and both less than the balance
C29_Witness ==
    /\ TaxProbe
    /\ RLt(Zero, probe.balance_529)
    /\ RLt(probe.balance_529, probe.larger)
    /\ RLe(R(1400000), probe.larger)
    /\ RLt(Zero, probe.ret)
    /\ RLt(probe.ret, probe.ret_larger)
    /\ RLt(probe.ret_larger, probe.larger)
(***************************************************************************)
(* A degree whose window holds no simulated year (Spec).                   *)
(***************************************************************************)
EmptyWindow == params.masters_degree_enabled /\ \A idx \in Years : ~InDegreeWindow(YearOf(idx))

\* C30: an enabled degree whose window contains no simulated year
\* (masters_degree_years <= 0, no masters_start_year, or the whole window
\* before start_year or from start_year + years on) changes nothing: every
\* balance, contribution, withdrawal, tax and total of the run equals that of
\* the degree-disabled run, under both enrollment types.
C30_EmptyWindowChangesNothing ==
    Done /\ EmptyWindow =>
        /\ results = baseline.results
        /\ ira_results = baseline.ira_details
        /\ brokerage_results = baseline.brokerage_details
        /\ k401 = baseline.k401
        /\ \A idx \in Years : p529.tuition[idx] = Zero /\ p529.living[idx] = Zero

\* a full-time degree of a positive length that ends before the first
\* simulated year of a run of several years
C30_Witness ==
    /\ Done /\ EmptyWindow /\ FullTime
    /\ params.years >= 2
    /\ params.masters_start_year # None
    /\ params.masters_degree_years >= 1
    /\ params.masters_start_year[1] + params.masters_degree_years <= params.start_year
    /\ RLt(Zero, results.brokerage_nominal)
    /\ RLt(Zero, results.p529_tax)
====
